---- MODULE Spec2Model ----
(***************************************************************************)
(* Model of smart-crop-video (smart_crop/core, smart_crop/analysis,        *)
(* smart_crop/scene, smart-crop-video.py): metric normalisation and        *)
(* strategy scoring, candidate generation and deduplication, analysis-grid *)
(* generation, scene segmentation, merging and lookup, boring-section      *)
(* detection, the parallel analysis of positions, and the main flow with   *)
(* the state it shares with the web server (state, mainThread).            *)
(*                                                                         *)
(* A pure function is modelled as an operator and exercised by a "call"    *)
(* variable: Init draws the arguments from bounded sets (status "called")  *)
(* and the action of the function stores what it returns (status           *)
(* "returned") or that it raised (status "raised").  A loop whose number   *)
(* of passes depends on rounding, and the worker pool, take one action per *)
(* step.  Each function family has its own specification.                  *)
(*                                                                         *)
(* A Python float is a rational, a pair <<numerator, denominator>> with a  *)
(* positive denominator.  Scores and normalised values are exact; where a  *)
(* result depends on the rounding of float operations (accumulated segment *)
(* boundaries, the percentile index) every operation is rounded to         *)
(* FloatBits significant bits.                                             *)
(***************************************************************************)
EXTENDS Integers, Sequences, FiniteSets, TLC

VARIABLES scoreCall, dedupCall, genCall, gridCall, scenesCall, poolCall, state, mainThread

vars == <<scoreCall, dedupCall, genCall, gridCall, scenesCall, poolCall, state, mainThread>>

\* A call variable of a function family that the running specification
\* does not exercise.
Idle == [status |-> "idle"]

------------------------------------------------------------------------------
(* Rationals *)

FracLE(a, b) == a[1] * b[2] <= b[1] * a[2]
FracLT(a, b) == a[1] * b[2] < b[1] * a[2]
FracEq(a, b) == a[1] * b[2] = b[1] * a[2]

Zero == <<0, 1>>
Hundred == <<100, 1>>

Abs(n) == IF n < 0 THEN -n ELSE n

RECURSIVE GCD(_, _)
GCD(a, b) == IF b = 0 THEN a ELSE GCD(b, a % b)

\* The rational n/d (d > 0) in lowest terms.
Frac(n, d) ==
    LET g == GCD(Abs(n), d) IN <<n \div g, d \div g>>

\* All sequences over S of length at most n.
SeqsUpTo(S, n) == UNION {[1 .. k -> S] : k \in 0 .. n}

------------------------------------------------------------------------------
(* smart_crop/core/scoring.py *)

Metrics == {"motion", "complexity", "edges", "saturation"}

\* Largest raw metric value drawn for a position.
MaxMetric == 2

MetricVals == 0 .. MaxMetric

\* normalize with the degenerate range answered by 0.0 instead of 50.0.
normalize_degenerate_zero(value, min_val, max_val) ==
    IF max_val - min_val > 0
    THEN Frac((value - min_val) * 100, max_val - min_val)
    ELSE <<0, 1>>

\* normalize(value, min_val, max_val): ((value - min_val) / (max_val - min_val)) * 100
\* when max_val - min_val > 0, else 50.0.
normalize(value, min_val, max_val) ==
    IF max_val - min_val > 0
    THEN Frac((value - min_val) * 100, max_val - min_val)
    ELSE <<50, 1>>

\* The weight tables, in hundredths (0.05 is 5).
STRATEGIES ==
       "Subject Detection" :> [motion |-> 5,  complexity |-> 25, edges |-> 40, saturation |-> 30]
    @@ "Motion Priority"   :> [motion |-> 50, complexity |-> 15, edges |-> 25, saturation |-> 10]
    @@ "Visual Detail"     :> [motion |-> 5,  complexity |-> 50, edges |-> 30, saturation |-> 15]
    @@ "Balanced"          :> [motion |-> 25, complexity |-> 25, edges |-> 25, saturation |-> 25]
    @@ "Color Focus"       :> [motion |-> 5,  complexity |-> 20, edges |-> 30, saturation |-> 45]

StrategyNames == DOMAIN STRATEGIES

\* The four normalised metrics of score_position (scoring.py lines 202-205).
normalized_metrics(metrics, bounds) ==
    [ motion     |-> normalize(metrics.motion, bounds.motion_min, bounds.motion_max),
      complexity |-> normalize(metrics.complexity, bounds.complexity_min, bounds.complexity_max),
      edges      |-> normalize(metrics.edges, bounds.edges_min, bounds.edges_max),
      saturation |-> normalize(metrics.saturation, bounds.saturation_min, bounds.saturation_max) ]

\* The weighted sum of score_position (scoring.py lines 208-213), as one rational.
weighted_sum(n, w) ==
  Frac( w.motion     * n.motion[1]     * n.complexity[2] * n.edges[2]      * n.saturation[2]
     + w.complexity * n.complexity[1] * n.motion[2]     * n.edges[2]      * n.saturation[2]
     + w.edges      * n.edges[1]      * n.motion[2]     * n.complexity[2] * n.saturation[2]
     + w.saturation * n.saturation[1] * n.motion[2]     * n.complexity[2] * n.edges[2],
       100 * n.motion[2] * n.complexity[2] * n.edges[2] * n.saturation[2] )

score_position(metrics, bounds, strategy) ==
    weighted_sum(normalized_metrics(metrics, bounds), STRATEGIES[strategy])

\* PositionMetrics(x, y, motion, complexity, edges, saturation)
PositionMetrics(x, y, mo, co, ed, sa) ==
    [x |-> x, y |-> y, motion |-> mo, complexity |-> co, edges |-> ed, saturation |-> sa]

\* NormalizationBounds from one (min, max) pair per metric.
NormalizationBounds(mo, co, ed, sa) ==
    [ motion_min |-> mo[1], motion_max |-> mo[2],
      complexity_min |-> co[1], complexity_max |-> co[2],
      edges_min |-> ed[1], edges_max |-> ed[2],
      saturation_min |-> sa[1], saturation_max |-> sa[2] ]

\* The (min, max) pairs a bound is drawn from: the full range, a range with
\* no width, a range narrower than the values, and an inverted range.
BoundPairs == {<<0, MaxMetric>>, <<1, 1>>, <<0, 1>>, <<MaxMetric, 0>>}

ScoreInit ==
    /\ scoreCall \in
         [ metrics  : {PositionMetrics(1, 1, mo, co, ed, sa) :
                          mo \in MetricVals, co \in MetricVals,
                          ed \in MetricVals, sa \in MetricVals},
           bounds   : {NormalizationBounds(mo, co, ed, sa) :
                          mo \in BoundPairs, co \in BoundPairs,
                          ed \in BoundPairs, sa \in BoundPairs},
           strategy : StrategyNames,
           status   : {"called"},
           norms    : {<<>>},
           score    : {Zero} ]
    /\ dedupCall = Idle
    /\ poolCall = Idle
    /\ genCall = Idle
    /\ gridCall = Idle
    /\ scenesCall = Idle
    /\ state = Idle
    /\ mainThread = Idle

ScorePosition ==
    /\ scoreCall.status = "called"
    /\ scoreCall' =
         [scoreCall EXCEPT
            !.status = "returned",
            !.norms  = normalized_metrics(scoreCall.metrics, scoreCall.bounds),
            !.score  = score_position(scoreCall.metrics, scoreCall.bounds,
                                      scoreCall.strategy)]
    /\ UNCHANGED <<dedupCall, genCall, gridCall, scenesCall, poolCall, state, mainThread>>

ScoreNext == ScorePosition

SpecScore == ScoreInit /\ [][ScoreNext]_vars

------------------------------------------------------------------------------
(* Properties of normalize and score_position, checked under SpecScore *)

\* The raw value and the (min, max) pair normalize is called with for metric m.
ValueOf(call, m) ==
    CASE m = "motion"     -> call.metrics.motion
      [] m = "complexity" -> call.metrics.complexity
      [] m = "edges"      -> call.metrics.edges
      [] m = "saturation" -> call.metrics.saturation

MinOf(call, m) ==
    CASE m = "motion"     -> call.bounds.motion_min
      [] m = "complexity" -> call.bounds.complexity_min
      [] m = "edges"      -> call.bounds.edges_min
      [] m = "saturation" -> call.bounds.saturation_min

MaxOf(call, m) ==
    CASE m = "motion"     -> call.bounds.motion_max
      [] m = "complexity" -> call.bounds.complexity_max
      [] m = "edges"      -> call.bounds.edges_max
      [] m = "saturation" -> call.bounds.saturation_max

\* C4: for every built-in strategy, every metrics value and every bounds value
\* (also metrics the bounds were not derived from), the score returned by
\* score_position lies in the closed range [0, 100].
C4_ScoreInRange ==
    scoreCall.status = "returned" =>
        /\ FracLE(Zero, scoreCall.score)
        /\ FracLE(scoreCall.score, Hundred)

------------------------------------------------------------------------------
(* smart_crop/core/candidates.py *)

\* What a call leaves behind: the list it returned, or that it raised ValueError.
Returned(value) == [status |-> "returned", value |-> value]
Raised == [status |-> "raised", value |-> <<>>]

\* ScoredCandidate(x, y, score, strategy)
ScoredCandidate(x, y, score, strategy) ==
    [x |-> x, y |-> y, score |-> score, strategy |-> strategy]

\* list.sort(key=score, reverse=True) is stable: an element goes behind every
\* element of the sorted prefix whose score is greater than or equal to its own.
RECURSIVE InsertByScoreDesc(_, _)
InsertByScoreDesc(sorted, e) ==
    IF sorted = <<>> THEN <<e>>
    ELSE IF FracLT(Head(sorted).score, e.score) THEN <<e>> \o sorted
    ELSE <<Head(sorted)>> \o InsertByScoreDesc(Tail(sorted), e)

RECURSIVE SortByScoreDesc(_)
SortByScoreDesc(seq) ==
    IF seq = <<>> THEN <<>>
    ELSE InsertByScoreDesc(SortByScoreDesc(SubSeq(seq, 1, Len(seq) - 1)), seq[Len(seq)])

\* seq[:n]
Take(seq, n) == SubSeq(seq, 1, IF n < Len(seq) THEN n ELSE Len(seq))

\* The (pos, score) pairs of positions under a strategy, in the order of positions.
scored_positions(positions, bounds, strategy) ==
    [i \in 1 .. Len(positions) |->
        [pos |-> positions[i], score |-> score_position(positions[i], bounds, strategy)]]

\* generate_strategy_candidates, called by generate_candidates with a non-empty
\* list and top_n >= 1 (its own guards, lines 75-79, repeat the caller's).
generate_strategy_candidates(positions, bounds, strategy, top_n) ==
    LET scored == SortByScoreDesc(scored_positions(positions, bounds, strategy))
        top    == Take(scored, top_n)
    IN  [i \in 1 .. Len(top) |->
            ScoredCandidate(top[i].pos.x, top[i].pos.y, top[i].score, strategy)]

\* The regions of generate_spatial_candidates, in the order of the list.
RegionNames == <<"Top-Left", "Top-Right", "Bottom-Left", "Bottom-Right", "Center">>

\* The filter function of a region (candidates.py lines 153-160).
region_filter(name, p, video_width, video_height) ==
    LET center_x == video_width \div 2
        center_y == video_height \div 2
    IN  CASE name = "Top-Left"     -> p.x < center_x /\ p.y < center_y
          [] name = "Top-Right"    -> p.x >= center_x /\ p.y < center_y
          [] name = "Bottom-Left"  -> p.x < center_x /\ p.y >= center_y
          [] name = "Bottom-Right" -> p.x >= center_x /\ p.y >= center_y
          [] name = "Center"       -> /\ Abs(p.x - center_x) < video_width \div 4
                                      /\ Abs(p.y - center_y) < video_height \div 4

\* One pass of the loop over regions that takes the first position of the
\* region in the order of the list, whatever its score.
region_candidate_first(name, positions, bounds, video_width, video_height) ==
    LET InRegion(p) == region_filter(name, p, video_width, video_height)
        region_positions == SelectSeq(positions, InRegion)
        scored == scored_positions(region_positions, bounds, "Balanced")
    IN  IF region_positions = <<>> THEN <<>>
        ELSE <<ScoredCandidate(scored[1].pos.x, scored[1].pos.y, scored[1].score,
                               "Spatial:" \o name)>>

\* One pass of the loop over regions: nothing for an empty region, else the best
\* position of the region under the Balanced strategy.
region_candidate(name, positions, bounds, video_width, video_height) ==
    LET InRegion(p) == region_filter(name, p, video_width, video_height)
        region_positions == SelectSeq(positions, InRegion)
        scored == SortByScoreDesc(scored_positions(region_positions, bounds, "Balanced"))
    IN  IF region_positions = <<>> THEN <<>>
        ELSE <<ScoredCandidate(scored[1].pos.x, scored[1].pos.y, scored[1].score,
                               "Spatial:" \o name)>>

\* generate_spatial_candidates finding no candidate in any region.
generate_spatial_candidates_none(positions, bounds, video_width, video_height) == <<>>

\* generate_spatial_candidates, called by generate_candidates with a non-empty
\* list and positive dimensions (its own guards, lines 143-147, repeat the caller's).
generate_spatial_candidates(positions, bounds, video_width, video_height) ==
       region_candidate(RegionNames[1], positions, bounds, video_width, video_height)
    \o region_candidate(RegionNames[2], positions, bounds, video_width, video_height)
    \o region_candidate(RegionNames[3], positions, bounds, video_width, video_height)
    \o region_candidate(RegionNames[4], positions, bounds, video_width, video_height)
    \o region_candidate(RegionNames[5], positions, bounds, video_width, video_height)

\* The loop of deduplicate_candidates (lines 241-257) from index i on.
RECURSIVE dedup_walk(_, _, _, _, _)
dedup_walk(sorted_candidates, i, seen, unique_candidates, max_candidates) ==
    IF i > Len(sorted_candidates) THEN unique_candidates
    ELSE LET candidate == sorted_candidates[i]
             key == <<candidate.x, candidate.y>>
         IN  IF candidate.x <= 0 \/ candidate.y <= 0
             THEN dedup_walk(sorted_candidates, i + 1, seen, unique_candidates,
                             max_candidates)
             ELSE IF key \in seen
             THEN dedup_walk(sorted_candidates, i + 1, seen, unique_candidates,
                             max_candidates)
             ELSE IF Len(unique_candidates) + 1 >= max_candidates
             THEN Append(unique_candidates, candidate)
             ELSE dedup_walk(sorted_candidates, i + 1, seen \cup {key},
                             Append(unique_candidates, candidate), max_candidates)

\* deduplicate_candidates variants used to test the properties below.
\* The walk without the break at max_candidates:
RECURSIVE dedup_walk_no_limit(_, _, _, _)
dedup_walk_no_limit(sorted_candidates, i, seen, unique_candidates) ==
    IF i > Len(sorted_candidates) THEN unique_candidates
    ELSE LET candidate == sorted_candidates[i]
             key == <<candidate.x, candidate.y>>
         IN  IF candidate.x <= 0 \/ candidate.y <= 0 \/ key \in seen
             THEN dedup_walk_no_limit(sorted_candidates, i + 1, seen, unique_candidates)
             ELSE dedup_walk_no_limit(sorted_candidates, i + 1, seen \cup {key},
                                      Append(unique_candidates, candidate))

\* The walk without the check for positions at the edge:
RECURSIVE dedup_walk_keep_edges(_, _, _, _, _)
dedup_walk_keep_edges(sorted_candidates, i, seen, unique_candidates, max_candidates) ==
    IF i > Len(sorted_candidates) THEN unique_candidates
    ELSE LET candidate == sorted_candidates[i]
             key == <<candidate.x, candidate.y>>
         IN  IF key \in seen
             THEN dedup_walk_keep_edges(sorted_candidates, i + 1, seen, unique_candidates,
                                        max_candidates)
             ELSE IF Len(unique_candidates) + 1 >= max_candidates
             THEN Append(unique_candidates, candidate)
             ELSE dedup_walk_keep_edges(sorted_candidates, i + 1, seen \cup {key},
                                        Append(unique_candidates, candidate), max_candidates)

deduplicate_candidates_no_limit(candidates, max_candidates) ==
    IF candidates = <<>> THEN Returned(<<>>)
    ELSE IF max_candidates < 1 THEN Raised
    ELSE Returned(dedup_walk_no_limit(SortByScoreDesc(candidates), 1, {}, <<>>))

deduplicate_candidates_keep_edges(candidates, max_candidates) ==
    IF candidates = <<>> THEN Returned(<<>>)
    ELSE IF max_candidates < 1 THEN Raised
    ELSE Returned(dedup_walk_keep_edges(SortByScoreDesc(candidates), 1, {}, <<>>,
                                        max_candidates))

\* The walk over the candidates as given, not sorted by score:
deduplicate_candidates_unsorted(candidates, max_candidates) ==
    IF candidates = <<>> THEN Returned(<<>>)
    ELSE IF max_candidates < 1 THEN Raised
    ELSE Returned(dedup_walk(candidates, 1, {}, <<>>, max_candidates))

deduplicate_candidates(candidates, max_candidates) ==
    IF candidates = <<>> THEN Returned(<<>>)
    ELSE IF max_candidates < 1 THEN Raised
    ELSE Returned(dedup_walk(SortByScoreDesc(candidates), 1, {}, <<>>, max_candidates))

\* The strategies generate_candidates runs, in the order of the list.
strategies ==
    <<"Subject Detection", "Motion Priority", "Visual Detail", "Balanced", "Color Focus">>

\* generate_candidates without the guard on top_per_strategy.
generate_candidates_no_top_guard(positions, bounds, video_width, video_height, max_candidates, top_per_strategy) ==
    IF positions = <<>> THEN Raised
    ELSE IF video_width <= 0 \/ video_height <= 0 THEN Raised
    ELSE IF max_candidates < 1 THEN Raised
    ELSE LET all_candidates ==
                    generate_strategy_candidates(positions, bounds, strategies[1], top_per_strategy)
                 \o generate_strategy_candidates(positions, bounds, strategies[2], top_per_strategy)
                 \o generate_strategy_candidates(positions, bounds, strategies[3], top_per_strategy)
                 \o generate_strategy_candidates(positions, bounds, strategies[4], top_per_strategy)
                 \o generate_strategy_candidates(positions, bounds, strategies[5], top_per_strategy)
                 \o generate_spatial_candidates(positions, bounds, video_width, video_height)
         IN  deduplicate_candidates(all_candidates, max_candidates)

\* generate_candidates with the spatial candidates ahead of the strategy
\* candidates in all_candidates.
generate_candidates_spatial_first(positions, bounds, video_width, video_height, max_candidates, top_per_strategy) ==
    IF positions = <<>> THEN Raised
    ELSE IF video_width <= 0 \/ video_height <= 0 THEN Raised
    ELSE IF max_candidates < 1 THEN Raised
    ELSE IF top_per_strategy < 1 THEN Raised
    ELSE LET all_candidates ==
                    generate_spatial_candidates(positions, bounds, video_width, video_height)
                 \o generate_strategy_candidates(positions, bounds, strategies[1], top_per_strategy)
                 \o generate_strategy_candidates(positions, bounds, strategies[2], top_per_strategy)
                 \o generate_strategy_candidates(positions, bounds, strategies[3], top_per_strategy)
                 \o generate_strategy_candidates(positions, bounds, strategies[4], top_per_strategy)
                 \o generate_strategy_candidates(positions, bounds, strategies[5], top_per_strategy)
         IN  deduplicate_candidates(all_candidates, max_candidates)

generate_candidates(positions, bounds, video_width, video_height, max_candidates, top_per_strategy) ==
    IF positions = <<>> THEN Raised
    ELSE IF video_width <= 0 \/ video_height <= 0 THEN Raised
    ELSE IF max_candidates < 1 THEN Raised
    ELSE IF top_per_strategy < 1 THEN Raised
    ELSE LET all_candidates ==
                    generate_strategy_candidates(positions, bounds, strategies[1], top_per_strategy)
                 \o generate_strategy_candidates(positions, bounds, strategies[2], top_per_strategy)
                 \o generate_strategy_candidates(positions, bounds, strategies[3], top_per_strategy)
                 \o generate_strategy_candidates(positions, bounds, strategies[4], top_per_strategy)
                 \o generate_strategy_candidates(positions, bounds, strategies[5], top_per_strategy)
                 \o generate_spatial_candidates(positions, bounds, video_width, video_height)
         IN  deduplicate_candidates(all_candidates, max_candidates)

\* min / max of a non-empty set of integers
SetMin(S) == CHOOSE m \in S : \A n \in S : m <= n
SetMax(S) == CHOOSE m \in S : \A n \in S : m >= n

\* NormalizationBounds.from_positions of a non-empty list
from_positions(positions) ==
    LET I == 1 .. Len(positions) IN
    [ motion_min     |-> SetMin({positions[i].motion : i \in I}),
      motion_max     |-> SetMax({positions[i].motion : i \in I}),
      complexity_min |-> SetMin({positions[i].complexity : i \in I}),
      complexity_max |-> SetMax({positions[i].complexity : i \in I}),
      edges_min      |-> SetMin({positions[i].edges : i \in I}),
      edges_max      |-> SetMax({positions[i].edges : i \in I}),
      saturation_min |-> SetMin({positions[i].saturation : i \in I}),
      saturation_max |-> SetMax({positions[i].saturation : i \in I}) ]

------------------------------------------------------------------------------
(* Calls of deduplicate_candidates and generate_candidates *)

\* Longest candidate list handed to deduplicate_candidates.
MaxDedupLen == 3

\* Longest position list handed to generate_candidates.
MaxPositions == 2

\* Largest max_candidates and largest top_per_strategy/top_n drawn.
MaxCandidatesArg == 2
MaxTopArg == 2

\* Candidate positions for deduplicate_candidates: two usable ones, one on the
\* left edge (x = 0) and one above the frame (y < 0).
DedupPoints == {<<1, 1>>, <<2, 2>>, <<0, 2>>, <<1, -1>>}

DedupScores == {<<10, 1>>, <<50, 1>>, <<90, 1>>}

DedupCandidates ==
    {ScoredCandidate(p[1], p[2], sc, "Balanced") :
        p \in DedupPoints, sc \in DedupScores}

DedupInit ==
    /\ dedupCall \in
         [ candidates     : SeqsUpTo(DedupCandidates, MaxDedupLen),
           max_candidates : 0 .. MaxCandidatesArg,
           status         : {"called"},
           value          : {<<>>} ]
    /\ genCall = Idle

\* Positions of a 4x4 frame (centre (2, 2)): one in the top-left quadrant, one
\* at the centre (bottom-right quadrant and centre region), one on the left edge.
GenPoints == {<<1, 1>>, <<2, 2>>, <<0, 1>>}

\* Metric readings <<motion, complexity, edges, saturation>>: motion only,
\* saturation only, and 1 everywhere.
MetricVectors ==
    {<<MaxMetric, 0, 0, 0>>, <<0, 0, 0, MaxMetric>>, <<1, 1, 1, 1>>}

GenPositions ==
    {PositionMetrics(p[1], p[2], m[1], m[2], m[3], m[4]) :
        p \in GenPoints, m \in MetricVectors}

UnitBounds == NormalizationBounds(<<0, 1>>, <<0, 1>>, <<0, 1>>, <<0, 1>>)

GenCallOf(positions, bounds, dims, max_candidates, top_per_strategy) ==
    [ positions |-> positions, bounds |-> bounds,
      video_width |-> dims[1], video_height |-> dims[2],
      max_candidates |-> max_candidates, top_per_strategy |-> top_per_strategy,
      status |-> "called", value |-> <<>> ]

\* Calls with arguments the contract allows: the bounds are those of the
\* positions or the unit range, whatever the positions.
GenValidCalls ==
    {GenCallOf(ps, b, <<4, 4>>, mc, tp) :
        ps \in SeqsUpTo(GenPositions, MaxPositions) \ {<<>>},
        b \in {"derived", "unit"},
        mc \in 1 .. MaxCandidatesArg, tp \in 1 .. MaxTopArg}

\* Calls around the edge of the contract: at most one position, and every
\* combination of a missing, zero, negative or positive argument.
GenEdgeCalls ==
    {GenCallOf(ps, "unit", <<w, h>>, mc, tp) :
        ps \in SeqsUpTo(GenPositions, 1),
        w \in {-1, 0, 4}, h \in {0, 4},
        mc \in 0 .. MaxCandidatesArg, tp \in 0 .. MaxTopArg}

GenInit ==
    /\ genCall \in GenValidCalls \cup GenEdgeCalls
    /\ dedupCall = Idle

CandInit ==
    /\ DedupInit \/ GenInit
    /\ scoreCall = Idle
    /\ poolCall = Idle
    /\ gridCall = Idle
    /\ scenesCall = Idle
    /\ state = Idle
    /\ mainThread = Idle

Deduplicate ==
    /\ dedupCall.status = "called"
    /\ LET r == deduplicate_candidates(dedupCall.candidates, dedupCall.max_candidates)
       IN  dedupCall' = [dedupCall EXCEPT !.status = r.status, !.value = r.value]
    /\ UNCHANGED <<scoreCall, genCall, gridCall, scenesCall, poolCall, state, mainThread>>

\* The bounds argument of a call: NormalizationBounds.from_positions(positions)
\* or the unit range.
BoundsOf(call) ==
    IF call.bounds = "derived" THEN from_positions(call.positions) ELSE UnitBounds

GenerateCandidates ==
    /\ genCall.status = "called"
    /\ LET r == generate_candidates(genCall.positions, BoundsOf(genCall),
                                    genCall.video_width, genCall.video_height,
                                    genCall.max_candidates, genCall.top_per_strategy)
       IN  genCall' = [genCall EXCEPT !.status = r.status, !.value = r.value]
    /\ UNCHANGED <<scoreCall, dedupCall, gridCall, scenesCall, poolCall, state, mainThread>>

CandNext == Deduplicate \/ GenerateCandidates

SpecCand == CandInit /\ [][CandNext]_vars

------------------------------------------------------------------------------
(* Properties of deduplicate_candidates and generate_candidates, checked
   under SpecCand *)

SamePosition(a, b) == a.x = b.x /\ a.y = b.y

\* The scores of a candidate list never increase from one entry to the next.
ScoresNonIncreasing(list) ==
    \A i \in 1 .. Len(list) - 1 : FracLE(list[i + 1].score, list[i].score)

\* No two entries of a candidate list share a position, and none lies at
\* x <= 0 or y <= 0.
UniqueAndInside(list) ==
    /\ \A i, j \in 1 .. Len(list) : SamePosition(list[i], list[j]) => i = j
    /\ \A i \in 1 .. Len(list) : list[i].x > 0 /\ list[i].y > 0

\* C1: for a non-empty position list, any bounds, positive dimensions,
\* max_candidates >= 1 and top_per_strategy >= 1, generate_candidates returns
\* at most max_candidates entries, their scores non-increasing.
C1_LengthAndOrder ==
    genCall.status = "returned" =>
        /\ Len(genCall.value) <= genCall.max_candidates
        /\ ScoresNonIncreasing(genCall.value)

\* C1 witness: a call returns as many entries as max_candidates allows, two of
\* them with different scores, the better one from the later input position.
C1_Witness ==
    /\ genCall.status = "returned"
    /\ Len(genCall.value) = genCall.max_candidates
    /\ Len(genCall.value) = 2
    /\ FracLT(genCall.value[2].score, genCall.value[1].score)
    /\ Len(genCall.positions) = 2
    /\ genCall.value[1].x = genCall.positions[2].x
    /\ genCall.value[1].y = genCall.positions[2].y

\* C2: deduplicate_candidates never returns two entries with the same (x, y)
\* nor an entry with x <= 0 or y <= 0, whatever the input holds; the same
\* holds of the list generate_candidates returns.
C2_UniqueAndInside ==
    /\ dedupCall.status = "returned" => UniqueAndInside(dedupCall.value)
    /\ genCall.status = "returned" => UniqueAndInside(genCall.value)

\* C2 witness: the input of deduplicate_candidates holds an entry on the edge
\* (x <= 0 or y <= 0) and two entries at one usable position, and a list
\* comes back.
C2_Witness ==
    /\ dedupCall.status = "returned"
    /\ dedupCall.value # <<>>
    /\ \E i \in 1 .. Len(dedupCall.candidates) :
          dedupCall.candidates[i].x <= 0 \/ dedupCall.candidates[i].y <= 0
    /\ \E i, j \in 1 .. Len(dedupCall.candidates) :
          /\ i # j
          /\ SamePosition(dedupCall.candidates[i], dedupCall.candidates[j])
          /\ dedupCall.candidates[i].x > 0 /\ dedupCall.candidates[i].y > 0

\* C3: deduplicate_candidates keeps for each returned position the highest
\* score the position has in the input; every usable position left out has a
\* best score no greater than the score of every returned entry, and nothing
\* usable is left out while fewer than max_candidates entries are returned.
C3_KeepsBest ==
    (dedupCall.status = "returned" /\ dedupCall.max_candidates >= 1) =>
        LET input  == dedupCall.candidates
            output == dedupCall.value
        IN  /\ \A i \in 1 .. Len(output) :
                  /\ \E j \in 1 .. Len(input) :
                        SamePosition(input[j], output[i])
                        /\ FracEq(input[j].score, output[i].score)
                  /\ \A j \in 1 .. Len(input) :
                        SamePosition(input[j], output[i])
                        => FracLE(input[j].score, output[i].score)
            /\ \A j \in 1 .. Len(input) :
                  ( /\ input[j].x > 0 /\ input[j].y > 0
                    /\ \A i \in 1 .. Len(output) : ~SamePosition(input[j], output[i]) )
                  => /\ \A i \in 1 .. Len(output) :
                            FracLE(input[j].score, output[i].score)
                     /\ Len(output) = dedupCall.max_candidates

\* C3 witness: a usable position is left out, and the position returned first
\* comes earlier in the input with a lower score.
C3_Witness ==
    /\ dedupCall.status = "returned"
    /\ Len(dedupCall.value) = 1
    /\ \E j \in 1 .. Len(dedupCall.candidates) :
          /\ dedupCall.candidates[j].x > 0 /\ dedupCall.candidates[j].y > 0
          /\ ~SamePosition(dedupCall.candidates[j], dedupCall.value[1])
    /\ SamePosition(dedupCall.candidates[1], dedupCall.value[1])
    /\ FracLT(dedupCall.candidates[1].score, dedupCall.value[1].score)

\* The arguments of a call of generate_candidates that the contract forbids.
GenInvalidArguments ==
    \/ genCall.positions = <<>>
    \/ genCall.video_width <= 0
    \/ genCall.video_height <= 0
    \/ genCall.max_candidates < 1
    \/ genCall.top_per_strategy < 1

\* C7: generate_candidates raises and returns no list at all whenever positions
\* is empty, video_width <= 0, video_height <= 0, max_candidates < 1 or
\* top_per_strategy < 1.
C7_InvalidInputRaises ==
    (genCall.status \in {"returned", "raised"} /\ GenInvalidArguments) =>
        /\ genCall.status = "raised"
        /\ genCall.value = <<>>

\* C7 witness: a call whose only fault is top_per_strategy < 1 has raised.
C7_Witness ==
    /\ genCall.status = "raised"
    /\ genCall.positions # <<>>
    /\ genCall.positions[1].x > 0 /\ genCall.positions[1].y > 0
    /\ genCall.video_width > 0 /\ genCall.video_height > 0
    /\ genCall.max_candidates >= 1
    /\ genCall.top_per_strategy < 1

------------------------------------------------------------------------------
(* smart_crop/core/grid.py *)

\* Position(x, y)
Position(x, y) == [x |-> x, y |-> y]

Max2(a, b) == IF a >= b THEN a ELSE b

\* The coordinates along one axis without the clamp to 1.
axis_positions_unclamped(max, grid_size) ==
    IF grid_size = 1
    THEN <<IF max > 0 THEN max \div 2 ELSE 0>>
    ELSE IF max > 0
    THEN [k \in 1 .. grid_size |-> (max * (k - 1)) \div (grid_size - 1)]
    ELSE [k \in 1 .. grid_size |-> 0]

\* x_positions / y_positions of generate_analysis_grid (grid.py lines 80-95),
\* for grid_size >= 1.
axis_positions(max, grid_size) ==
    IF grid_size = 1
    THEN <<IF max > 0 THEN max \div 2 ELSE 0>>
    ELSE IF max > 0
    THEN [k \in 1 .. grid_size |-> Max2(1, (max * (k - 1)) \div (grid_size - 1))]
    ELSE [k \in 1 .. grid_size |-> 0]

\* The combinations with x in the outer loop and y in the inner loop.
all_combinations_x_outer(x_positions, y_positions) ==
    LET nx == Len(x_positions)
        ny == Len(y_positions)
    IN  [k \in 1 .. nx * ny |->
            Position(x_positions[((k - 1) \div ny) + 1], y_positions[((k - 1) % ny) + 1])]

\* All combinations in row-major order: y in the outer loop, x in the inner
\* loop (grid.py lines 98-101).
all_combinations(x_positions, y_positions) ==
    LET nx == Len(x_positions)
        ny == Len(y_positions)
    IN  [k \in 1 .. nx * ny |->
            Position(x_positions[((k - 1) % nx) + 1], y_positions[((k - 1) \div nx) + 1])]

generate_analysis_grid(max_x, max_y, grid_size) ==
    IF max_x <= 0 /\ max_y <= 0 THEN Returned(<<Position(0, 0)>>)
    ELSE IF grid_size < 1 THEN Raised
    ELSE Returned(all_combinations(axis_positions(max_x, grid_size),
                                   axis_positions(max_y, grid_size)))

\* Largest max_x / max_y and largest grid_size drawn.
MaxCoord == 6
MaxGridSize == 4

GridInit ==
    /\ gridCall \in
         [ max_x     : -1 .. MaxCoord,
           max_y     : -1 .. MaxCoord,
           grid_size : 0 .. MaxGridSize,
           status    : {"called"},
           value     : {<<>>} ]
    /\ scoreCall = Idle
    /\ poolCall = Idle
    /\ dedupCall = Idle
    /\ genCall = Idle
    /\ scenesCall = Idle
    /\ state = Idle
    /\ mainThread = Idle

GenerateAnalysisGrid ==
    /\ gridCall.status = "called"
    /\ LET r == generate_analysis_grid(gridCall.max_x, gridCall.max_y, gridCall.grid_size)
       IN  gridCall' = [gridCall EXCEPT !.status = r.status, !.value = r.value]
    /\ UNCHANGED <<scoreCall, dedupCall, genCall, scenesCall, poolCall, state, mainThread>>

GridNext == GenerateAnalysisGrid

SpecGrid == GridInit /\ [][GridNext]_vars

------------------------------------------------------------------------------
(* Properties of generate_analysis_grid, checked under SpecGrid *)

\* The arguments the contract of generate_analysis_grid allows.
GridValidArguments ==
    gridCall.max_x >= 0 /\ gridCall.max_y >= 0 /\ gridCall.grid_size >= 1

\* Coordinate i (from 0) of an axis as the claim states it.
ClaimedCoordinate(max, i, grid_size) ==
    IF grid_size >= 2
    THEN IF max > 0
         THEN (IF (max * i) \div (grid_size - 1) >= 1
               THEN (max * i) \div (grid_size - 1) ELSE 1)
         ELSE 0
    ELSE max \div 2

\* C8: for max_x >= 0, max_y >= 0 and grid_size >= 1 the grid is exactly
\* [Position(0, 0)] when max_x = max_y = 0, and otherwise the grid_size^2
\* positions of the cross product of the per-axis coordinates in row-major
\* order (y outer, x inner), coordinate i being max(1, floor(max * i /
\* (grid_size - 1))) on an axis with max > 0 and 0 on an axis with max = 0 for
\* grid_size >= 2, and floor(max / 2) for grid_size = 1.
C8_GridContents ==
    (gridCall.status # "called" /\ GridValidArguments) =>
        LET g == gridCall.grid_size
            v == gridCall.value
        IN  /\ gridCall.status = "returned"
            /\ IF gridCall.max_x = 0 /\ gridCall.max_y = 0
               THEN v = <<Position(0, 0)>>
               ELSE /\ Len(v) = g * g
                    /\ \A row, col \in 0 .. g - 1 :
                          v[row * g + col + 1] =
                              Position(ClaimedCoordinate(gridCall.max_x, col, g),
                                       ClaimedCoordinate(gridCall.max_y, row, g))

\* C8 witness: a grid of at least 3x3 positions over axes of different
\* lengths, the clamp to 1 applying on one axis.
C8_Witness ==
    /\ gridCall.status = "returned"
    /\ gridCall.grid_size >= 3
    /\ gridCall.max_x > gridCall.max_y
    /\ gridCall.max_y > 0
    /\ Len(gridCall.value) = gridCall.grid_size * gridCall.grid_size
    /\ gridCall.value[1] = Position(1, 1)
    /\ gridCall.value[2].x > 1

\* C9: for max_x >= 0, max_y >= 0 and grid_size >= 1 every position of the
\* grid has 0 <= x <= max_x and 0 <= y <= max_y; for grid_size >= 2, on every
\* axis with a positive max, every coordinate is at least 1 and the largest
\* coordinate is the axis's max.
C9_GridWithinRange ==
    (gridCall.status = "returned" /\ GridValidArguments) =>
        LET v == gridCall.value
            I == 1 .. Len(v)
        IN  /\ \A i \in I : /\ 0 <= v[i].x /\ v[i].x <= gridCall.max_x
                            /\ 0 <= v[i].y /\ v[i].y <= gridCall.max_y
            /\ (gridCall.grid_size >= 2 /\ gridCall.max_x > 0) =>
                  /\ \A i \in I : v[i].x >= 1
                  /\ \E i \in I : v[i].x = gridCall.max_x
            /\ (gridCall.grid_size >= 2 /\ gridCall.max_y > 0) =>
                  /\ \A i \in I : v[i].y >= 1
                  /\ \E i \in I : v[i].y = gridCall.max_y

\* C9 witness: a grid over one axis that cannot move and one that can, with
\* more grid points than the moving axis has coordinates.
C9_Witness ==
    /\ gridCall.status = "returned"
    /\ gridCall.max_x = 0
    /\ gridCall.max_y = 2
    /\ gridCall.grid_size = 4
    /\ Len(gridCall.value) = 16

------------------------------------------------------------------------------
(* smart_crop/analysis/scenes.py *)

\* Scene(start_time, end_time, start_frame, end_frame, metric_value)
Scene(start_time, end_time, start_frame, end_frame, metric_value) ==
    [ start_time |-> start_time, end_time |-> end_time,
      start_frame |-> start_frame, end_frame |-> end_frame,
      metric_value |-> metric_value ]

\* "Remove duplicates while preserving order" (scenes.py lines 178-183): the
\* (timestamp, frame) pairs of a list, each at its first occurrence.
RECURSIVE remove_duplicates(_)
remove_duplicates(all_timestamps) ==
    IF all_timestamps = <<>> THEN <<>>
    ELSE LET n == Len(all_timestamps)
             before == remove_duplicates(SubSeq(all_timestamps, 1, n - 1))
         IN  IF \E i \in 1 .. n - 1 : all_timestamps[i] = all_timestamps[n]
             THEN before
             ELSE Append(before, all_timestamps[n])

\* list.sort(key=lambda x: x[0]) is stable: a pair goes behind every pair of
\* the sorted prefix whose timestamp is less than or equal to its own.
RECURSIVE InsertByTime(_, _)
InsertByTime(sorted, ts) ==
    IF sorted = <<>> THEN <<ts>>
    ELSE IF ts[1] < Head(sorted)[1] THEN <<ts>> \o sorted
    ELSE <<Head(sorted)>> \o InsertByTime(Tail(sorted), ts)

RECURSIVE SortByTime(_)
SortByTime(seq) ==
    IF seq = <<>> THEN <<>>
    ELSE InsertByTime(SortByTime(SubSeq(seq, 1, Len(seq) - 1)), seq[Len(seq)])

\* The boundaries between scenes: the start, the cuts and the end, without
\* duplicates, sorted by timestamp (scenes.py lines 175-186).
scene_boundaries(timestamps, video_duration, total_frames) ==
    SortByTime(remove_duplicates(
        <<<<0, 0>>>> \o timestamps \o <<<<video_duration, total_frames>>>>))

\* One scene per pair of boundaries, each ending at the cut that follows the
\* cut it starts at in the list as given (not sorted, duplicates kept).
scenes_between_unsorted_ends(timestamps, video_duration, total_frames) ==
    LET all_timestamps == <<<<0, 0>>>> \o timestamps \o <<<<video_duration, total_frames>>>>
        unique_timestamps == scene_boundaries(timestamps, video_duration, total_frames)
    IN  [i \in 1 .. Len(unique_timestamps) - 1 |->
            Scene(unique_timestamps[i][1], all_timestamps[i + 1][1],
                  unique_timestamps[i][2], all_timestamps[i + 1][2], 0)]

\* One scene per pair of consecutive boundaries (scenes.py lines 189-201).
scenes_between(timestamps, video_duration, total_frames) ==
    LET unique_timestamps == scene_boundaries(timestamps, video_duration, total_frames)
    IN  [i \in 1 .. Len(unique_timestamps) - 1 |->
            Scene(unique_timestamps[i][1], unique_timestamps[i + 1][1],
                  unique_timestamps[i][2], unique_timestamps[i + 1][2], 0)]

create_scenes_from_timestamps(timestamps, video_duration, total_frames) ==
    IF video_duration <= 0 THEN Raised
    ELSE IF total_frames <= 0 THEN Raised
    ELSE Returned(scenes_between(timestamps, video_duration, total_frames))

\* Most cuts handed to create_scenes_from_timestamps, latest timestamp (in
\* seconds) and highest frame number drawn.
MaxCuts == 2
MaxTime == 3
MaxFrame == 2

ScenesInit ==
    /\ scenesCall \in
         [ timestamps     : SeqsUpTo((0 .. MaxTime) \X (0 .. MaxFrame), MaxCuts),
           video_duration : 0 .. MaxTime,
           total_frames   : 0 .. MaxFrame,
           status         : {"called"},
           value          : {<<>>} ]
    /\ scoreCall = Idle
    /\ poolCall = Idle
    /\ dedupCall = Idle
    /\ genCall = Idle
    /\ gridCall = Idle
    /\ state = Idle
    /\ mainThread = Idle

CreateScenesFromTimestamps ==
    /\ scenesCall.status = "called"
    /\ LET r == create_scenes_from_timestamps(scenesCall.timestamps,
                                              scenesCall.video_duration,
                                              scenesCall.total_frames)
       IN  scenesCall' = [scenesCall EXCEPT !.status = r.status, !.value = r.value]
    /\ UNCHANGED <<scoreCall, dedupCall, genCall, gridCall, poolCall, state, mainThread>>

ScenesNext == CreateScenesFromTimestamps

SpecScenes == ScenesInit /\ [][ScenesNext]_vars

------------------------------------------------------------------------------
(* Properties of create_scenes_from_timestamps, checked under SpecScenes *)

\* C10: for every list of cuts, every video_duration > 0 and every
\* total_frames >= 0, consecutive scenes returned by
\* create_scenes_from_timestamps are contiguous: each scene ends, in time and
\* in frames, where the next one starts.
C10_ScenesContiguous ==
    scenesCall.status = "returned" =>
        \A i \in 1 .. Len(scenesCall.value) - 1 :
            /\ scenesCall.value[i].end_time = scenesCall.value[i + 1].start_time
            /\ scenesCall.value[i].end_frame = scenesCall.value[i + 1].start_frame

\* C10 witness: two different cuts given latest first, neither at the start nor
\* at the end of the video, make three scenes.
C10_Witness ==
    /\ scenesCall.status = "returned"
    /\ Len(scenesCall.timestamps) = 2
    /\ scenesCall.timestamps[1][1] > scenesCall.timestamps[2][1]
    /\ scenesCall.timestamps[2][1] > 0
    /\ scenesCall.timestamps[1][1] < scenesCall.video_duration
    /\ Len(scenesCall.value) = 3

\* C11: for every list of cuts, the scenes returned by
\* create_scenes_from_timestamps partition [0, video_duration): the first scene
\* starts at (0, frame 0), the last scene ends at (video_duration,
\* total_frames), each scene ends where the next one starts and none runs
\* backwards in time, and with no cuts the result is the one scene
\* (0, video_duration, 0, total_frames).
C11_ScenesPartition ==
    scenesCall.status = "returned" =>
        LET scenes == scenesCall.value
            n == Len(scenes)
        IN  /\ n >= 1
            /\ scenes[1].start_time = 0 /\ scenes[1].start_frame = 0
            /\ scenes[n].end_time = scenesCall.video_duration
            /\ scenes[n].end_frame = scenesCall.total_frames
            /\ \A i \in 1 .. n : scenes[i].start_time <= scenes[i].end_time
            /\ \A i \in 1 .. n - 1 : scenes[i].end_time = scenes[i + 1].start_time
            /\ scenesCall.timestamps = <<>> =>
                   scenes = <<Scene(0, scenesCall.video_duration, 0, scenesCall.total_frames, 0)>>

------------------------------------------------------------------------------
(* Binary floating point.  create_time_based_segments adds segment_duration
   to a running total, so the rounding of every addition decides where the
   segments fall and how many there are; identify_boring_sections truncates a
   product of floats to an index.  A float is a rational whose significand has FloatBits bits (Python's has 53); every operation
   gives the exact result rounded to the nearest float, ties to even. *)

\* Significand width of the floats.
FloatBits == 7

FracAdd(a, b) == Frac(a[1] * b[2] + b[1] * a[2], a[2] * b[2])
FracMul(a, b) == Frac(a[1] * b[1], a[2] * b[2])
FracMin(a, b) == IF FracLE(a, b) THEN a ELSE b

\* n/d rounded to the nearest integer, ties to the even one.
RoundHalfEven(n, d) ==
    LET q == n \div d
        r == n % d
    IN  IF 2 * r < d THEN q
        ELSE IF 2 * r > d THEN q + 1
        ELSE IF q % 2 = 0 THEN q ELSE q + 1

\* The float nearest to the rational q.
RECURSIVE FloatRound(_)
FloatRound(q) ==
    IF q[1] = 0 THEN Zero
    ELSE IF q[1] < 0 THEN LET r == FloatRound(<<0 - q[1], q[2]>>) IN <<0 - r[1], r[2]>>
    ELSE IF q[1] >= (2 ^ FloatBits) * q[2]
         THEN LET r == FloatRound(<<q[1], 2 * q[2]>>) IN Frac(2 * r[1], r[2])
    ELSE IF q[1] < (2 ^ (FloatBits - 1)) * q[2]
         THEN LET r == FloatRound(<<2 * q[1], q[2]>>) IN Frac(r[1], 2 * r[2])
    ELSE <<RoundHalfEven(q[1], q[2]), 1>>

FloatAdd(a, b) == FloatRound(FracAdd(a, b))
FloatSub(a, b) == FloatRound(FracAdd(a, <<0 - b[1], b[2]>>))
FloatMul(a, b) == FloatRound(FracMul(a, b))
\* a / b for b # 0.
FloatDiv(a, b) ==
    FloatRound(IF b[1] > 0 THEN Frac(a[1] * b[2], a[2] * b[1])
               ELSE Frac(0 - a[1] * b[2], a[2] * (0 - b[1])))

\* int(f): truncation towards zero.
IntOf(f) == IF f[1] >= 0 THEN f[1] \div f[2] ELSE 0 - ((0 - f[1]) \div f[2])

------------------------------------------------------------------------------
(* smart_crop/analysis/scenes.py: create_time_based_segments *)

\* The guards of create_time_based_segments (scenes.py lines 250-257).
segments_arguments_valid(video_duration, fps, segment_duration) ==
    /\ FracLT(Zero, video_duration)
    /\ FracLT(Zero, fps)
    /\ FracLT(Zero, segment_duration)

\* The scene one pass of the while loop appends (scenes.py lines 264-275).
next_segment(current_time, current_frame, video_duration, fps, segment_duration) ==
    LET end_time == FracMin(FloatAdd(current_time, segment_duration), video_duration)
        end_frame == IntOf(FloatMul(end_time, fps))
    IN  Scene(current_time, end_time, current_frame, end_frame, 0)

\* Most passes of the while loop followed, longest video (in seconds), and
\* number of segment durations drawn whose significand uses all FloatBits bits.
MaxSegments == 8
MaxVideo == 6
MaxFullWidth == 2

\* Durations in half seconds, up to MaxVideo seconds.
HalfSeconds == {Frac(m, 2) : m \in 1 .. 2 * MaxVideo}

\* Durations just below two seconds whose significand has FloatBits bits.
FullWidthFloats ==
    {Frac((2 ^ FloatBits) - k, 2 ^ (FloatBits - 1)) : k \in 1 .. MaxFullWidth}

SegmentsInit ==
    /\ scenesCall \in
         [ video_duration   : {Zero} \cup HalfSeconds,
           fps              : {Zero} \cup {<<f, 1>> : f \in 1 .. 3},
           segment_duration : {Zero} \cup HalfSeconds \cup FullWidthFloats,
           status           : {"called"},
           current_time     : {Zero},
           current_frame    : {0},
           value            : {<<>>} ]
    /\ scoreCall = Idle
    /\ poolCall = Idle
    /\ dedupCall = Idle
    /\ genCall = Idle
    /\ gridCall = Idle
    /\ state = Idle
    /\ mainThread = Idle

\* Entry of create_time_based_segments: the guards, then the loop variables.
SegmentsEnter ==
    /\ scenesCall.status = "called"
    /\ scenesCall' =
         [scenesCall EXCEPT !.status =
             IF segments_arguments_valid(scenesCall.video_duration, scenesCall.fps,
                                         scenesCall.segment_duration)
             THEN "looping" ELSE "raised"]
    /\ UNCHANGED <<scoreCall, dedupCall, genCall, gridCall, poolCall, state, mainThread>>

\* One pass of "while current_time < video_duration".
SegmentsIterate ==
    /\ scenesCall.status = "looping"
    /\ FracLT(scenesCall.current_time, scenesCall.video_duration)
    /\ Len(scenesCall.value) < MaxSegments
    /\ LET scene == next_segment(scenesCall.current_time, scenesCall.current_frame,
                                 scenesCall.video_duration, scenesCall.fps,
                                 scenesCall.segment_duration)
       IN  scenesCall' = [scenesCall EXCEPT !.value = Append(@, scene),
                                            !.current_time = scene.end_time,
                                            !.current_frame = scene.end_frame]
    /\ UNCHANGED <<scoreCall, dedupCall, genCall, gridCall, poolCall, state, mainThread>>

\* The loop condition fails: return scenes.
SegmentsReturn ==
    /\ scenesCall.status = "looping"
    /\ ~ FracLT(scenesCall.current_time, scenesCall.video_duration)
    /\ scenesCall' = [scenesCall EXCEPT !.status = "returned"]
    /\ UNCHANGED <<scoreCall, dedupCall, genCall, gridCall, poolCall, state, mainThread>>

SegmentsNext == SegmentsEnter \/ SegmentsIterate \/ SegmentsReturn

SpecSegments == SegmentsInit /\ [][SegmentsNext]_vars

------------------------------------------------------------------------------
(* Properties of create_time_based_segments, checked under SpecSegments *)

\* ceil(n / d) for n >= 0, d > 0.
Ceil(n, d) == (n + d - 1) \div d

\* C12: for all video_duration > 0, fps > 0 and segment_duration > 0,
\* create_time_based_segments returns ceil(video_duration / segment_duration)
\* scenes; scene k (from 0) starts at k * segment_duration and ends at
\* min((k + 1) * segment_duration, video_duration), and consecutive scenes
\* share their boundary in time and in frames.
C12_SegmentsExact ==
    scenesCall.status = "returned" =>
        LET scenes == scenesCall.value
            vd == scenesCall.video_duration
            sd == scenesCall.segment_duration
        IN  /\ Len(scenes) = Ceil(vd[1] * sd[2], vd[2] * sd[1])
            /\ \A i \in 1 .. Len(scenes) :
                 /\ FracEq(scenes[i].start_time, <<(i - 1) * sd[1], sd[2]>>)
                 /\ FracEq(scenes[i].end_time, FracMin(<<i * sd[1], sd[2]>>, vd))
            /\ \A i \in 1 .. Len(scenes) - 1 :
                 /\ scenes[i].end_time = scenes[i + 1].start_time
                 /\ scenes[i].end_frame = scenes[i + 1].start_frame

------------------------------------------------------------------------------
(* smart_crop/analysis/scenes.py: merge_short_scenes *)

\* Scene.duration
duration(scene) == scene.end_time - scene.start_time

\* A short scene together with the scene that follows it, up to that scene's
\* start only (the following scene's own span is lost).
merged_scene_stops_early(first, second) ==
    Scene(first.start_time, second.start_time, first.start_frame, second.start_frame,
          Max2(first.metric_value, second.metric_value))

\* The scene that spans two adjacent scenes (scenes.py lines 388-394, 401-407).
merged_scene(first, second) ==
    Scene(first.start_time, second.end_time, first.start_frame, second.end_frame,
          Max2(first.metric_value, second.metric_value))

\* The while loop of merge_short_scenes from index i on (scenes.py lines
\* 374-412); Python's scenes[i] is scenes[i + 1] here.
RECURSIVE merge_walk(_, _, _, _)
merge_walk(scenes, i, merged, min_duration) ==
    IF ~ (i < Len(scenes)) THEN merged
    ELSE LET current == scenes[i + 1]
         IN  IF duration(current) >= min_duration
             THEN merge_walk(scenes, i + 1, Append(merged, current), min_duration)
             ELSE IF i + 1 < Len(scenes)
             THEN merge_walk(scenes, i + 2,
                             Append(merged, merged_scene(current, scenes[i + 2])),
                             min_duration)
             ELSE IF merged # <<>>
             THEN merge_walk(scenes, i + 1,
                             Append(SubSeq(merged, 1, Len(merged) - 1),
                                    merged_scene(merged[Len(merged)], current)),
                             min_duration)
             ELSE merge_walk(scenes, i + 1, Append(merged, current), min_duration)

merge_short_scenes(scenes, min_duration) ==
    IF min_duration < 0 THEN Raised
    ELSE IF scenes = <<>> THEN Returned(<<>>)
    ELSE IF Len(scenes) = 1 THEN Returned(scenes)
    ELSE Returned(merge_walk(scenes, 0, <<>>, min_duration))

\* Most scenes in a list handed to merge_short_scenes, longest scene and
\* widest gap between two scenes (in seconds), largest min_duration.
MaxScenes == 3
MaxDuration == 2
MaxGap == 1
MaxMinDuration == 2

\* Time at which scene i of a list starts, the list being given as the
\* <<gap before the scene, duration of the scene>> of each scene.
RECURSIVE StartOf(_, _)
StartOf(parts, i) ==
    IF i = 1 THEN parts[1][1]
    ELSE StartOf(parts, i - 1) + parts[i - 1][2] + parts[i][1]

\* The scene list of such a description, at two frames per second; the
\* metric of a scene is its index.
SceneListOf(parts) ==
    [i \in 1 .. Len(parts) |->
        Scene(StartOf(parts, i), StartOf(parts, i) + parts[i][2],
              2 * StartOf(parts, i), 2 * (StartOf(parts, i) + parts[i][2]), i)]

SceneLists ==
    {SceneListOf(parts) : parts \in SeqsUpTo((0 .. MaxGap) \X (0 .. MaxDuration), MaxScenes)}

MergeInit ==
    /\ scenesCall \in
         [ scenes       : SceneLists,
           min_duration : -1 .. MaxMinDuration,
           status       : {"called"},
           value        : {<<>>} ]
    /\ scoreCall = Idle
    /\ poolCall = Idle
    /\ dedupCall = Idle
    /\ genCall = Idle
    /\ gridCall = Idle
    /\ state = Idle
    /\ mainThread = Idle

MergeShortScenes ==
    /\ scenesCall.status = "called"
    /\ LET r == merge_short_scenes(scenesCall.scenes, scenesCall.min_duration)
       IN  scenesCall' = [scenesCall EXCEPT !.status = r.status, !.value = r.value]
    /\ UNCHANGED <<scoreCall, dedupCall, genCall, gridCall, poolCall, state, mainThread>>

MergeNext == MergeShortScenes

SpecMerge == MergeInit /\ [][MergeNext]_vars

------------------------------------------------------------------------------
(* Properties of merge_short_scenes, checked under SpecMerge *)

\* C13: for every list of at least two scenes and every min_duration >= 0,
\* every scene returned by merge_short_scenes lasts at least min_duration.
C13_NoShortSceneLeft ==
    (scenesCall.status = "returned" /\ Len(scenesCall.scenes) >= 2) =>
        \A i \in 1 .. Len(scenesCall.value) :
            duration(scenesCall.value[i]) >= scenesCall.min_duration

\* Each scene ends, in time and in frames, where the next one starts.
Contiguous(scenes) ==
    \A i \in 1 .. Len(scenes) - 1 :
        /\ scenes[i].end_time = scenes[i + 1].start_time
        /\ scenes[i].end_frame = scenes[i + 1].start_frame

\* output groups input: the input splits into runs of consecutive scenes, one
\* run per output scene, and each output scene spans exactly its run, from the
\* start of the run's first scene to the end of its last (time and frames).
RECURSIVE Groups(_, _)
Groups(output, input) ==
    IF output = <<>> THEN input = <<>>
    ELSE \E k \in 1 .. Len(input) :
            /\ output[1].start_time = input[1].start_time
            /\ output[1].start_frame = input[1].start_frame
            /\ output[1].end_time = input[k].end_time
            /\ output[1].end_frame = input[k].end_frame
            /\ Groups(Tail(output), SubSeq(input, k + 1, Len(input)))

\* C14: for every contiguous scene list and every min_duration >= 0, the
\* list returned by merge_short_scenes is contiguous, starts where the first
\* input scene starts and ends where the last input scene ends (time and
\* frames), and every input scene lies in exactly one output scene: the output
\* scenes span consecutive runs of the input, nothing dropped or duplicated.
C14_MergeKeepsCoverage ==
    (scenesCall.status = "returned" /\ Contiguous(scenesCall.scenes)) =>
        LET input == scenesCall.scenes
            output == scenesCall.value
        IN  /\ Contiguous(output)
            /\ (input = <<>>) <=> (output = <<>>)
            /\ input # <<>> =>
                 /\ output[1].start_time = input[1].start_time
                 /\ output[1].start_frame = input[1].start_frame
                 /\ output[Len(output)].end_time = input[Len(input)].end_time
                 /\ output[Len(output)].end_frame = input[Len(input)].end_frame
            /\ Groups(output, input)

\* C14 witness: a contiguous list of three scenes whose middle scene and last
\* scene are short; the middle one is merged with the last, two scenes return.
C14_Witness ==
    /\ scenesCall.status = "returned"
    /\ Contiguous(scenesCall.scenes)
    /\ Len(scenesCall.scenes) = 3
    /\ duration(scenesCall.scenes[1]) >= scenesCall.min_duration
    /\ duration(scenesCall.scenes[2]) < scenesCall.min_duration
    /\ duration(scenesCall.scenes[2]) > 0
    /\ Len(scenesCall.value) = 2

------------------------------------------------------------------------------
(* smart_crop/analysis/scenes.py: get_scene_at_time.  Times of this function
   are integers that count quarter milliseconds. *)

\* Optional[Scene]: None, or the scene found.
None == <<>>
Some(scene) == <<scene>>

\* 0.001 s, the tolerance at the end of the last scene, in quarter milliseconds.
EndTolerance == 4

\* get_scene_at_time without the check of the last scene's end time.
get_scene_at_time_no_tolerance(scenes, timestamp) ==
    LET holding == {i \in 1 .. Len(scenes) :
                       scenes[i].start_time <= timestamp /\ timestamp < scenes[i].end_time}
    IN  IF holding # {}
        THEN Some(scenes[CHOOSE i \in holding : \A j \in holding : i <= j])
        ELSE None

\* The first scene with start_time <= timestamp < end_time, else the last
\* scene if its end_time is less than 0.001 s away, else None.
get_scene_at_time(scenes, timestamp) ==
    LET holding == {i \in 1 .. Len(scenes) :
                       scenes[i].start_time <= timestamp /\ timestamp < scenes[i].end_time}
    IN  IF holding # {}
        THEN Some(scenes[CHOOSE i \in holding : \A j \in holding : i <= j])
        ELSE IF scenes # <<>> /\ Abs(scenes[Len(scenes)].end_time - timestamp) < EndTolerance
        THEN Some(scenes[Len(scenes)])
        ELSE None

\* Latest timestamp looked up: the longest scene list, its gaps, and beyond
\* the tolerance.
MaxTimestamp == MaxScenes * (MaxGap + MaxDuration) + EndTolerance + 1

SceneAtInit ==
    /\ scenesCall \in
         [ scenes    : SceneLists,
           timestamp : (0 - EndTolerance - 1) .. MaxTimestamp,
           status    : {"called"},
           value     : {None} ]
    /\ scoreCall = Idle
    /\ poolCall = Idle
    /\ dedupCall = Idle
    /\ genCall = Idle
    /\ gridCall = Idle
    /\ state = Idle
    /\ mainThread = Idle

GetSceneAtTime ==
    /\ scenesCall.status = "called"
    /\ scenesCall' = [scenesCall EXCEPT
                        !.status = "returned",
                        !.value = get_scene_at_time(scenesCall.scenes, scenesCall.timestamp)]
    /\ UNCHANGED <<scoreCall, dedupCall, genCall, gridCall, poolCall, state, mainThread>>

SceneAtNext == GetSceneAtTime

SpecSceneAt == SceneAtInit /\ [][SceneAtNext]_vars

------------------------------------------------------------------------------
(* Properties of get_scene_at_time, checked under SpecSceneAt *)

\* The scenes of the looked-up list that hold the looked-up timestamp.
Holding ==
    {i \in 1 .. Len(scenesCall.scenes) :
        /\ scenesCall.scenes[i].start_time <= scenesCall.timestamp
        /\ scenesCall.timestamp < scenesCall.scenes[i].end_time}

\* Distance from the looked-up timestamp to the end of the last scene.
EndDistance ==
    Abs(scenesCall.scenes[Len(scenesCall.scenes)].end_time - scenesCall.timestamp)

\* The rule of get_scene_at_time on a contiguous list: the scene that holds
\* the timestamp when there is one; otherwise the last scene when the
\* timestamp is less than 0.001 s from its end; otherwise None when the list
\* is empty or the timestamp is more than 0.001 s from that end.
SceneAtRule ==
    IF Holding # {}
    THEN \E i \in Holding : scenesCall.value = Some(scenesCall.scenes[i])
    ELSE IF scenesCall.scenes # <<>> /\ EndDistance < EndTolerance
    THEN scenesCall.value = Some(scenesCall.scenes[Len(scenesCall.scenes)])
    ELSE (scenesCall.scenes = <<>> \/ EndDistance > EndTolerance) => scenesCall.value = None

------------------------------------------------------------------------------
(* smart_crop/scene/analysis.py: identify_boring_sections *)

\* metric_values.sort(): ascending.
RECURSIVE InsertAscending(_, _)
InsertAscending(sorted, v) ==
    IF sorted = <<>> THEN <<v>>
    ELSE IF FracLT(v, Head(sorted)) THEN <<v>> \o sorted
    ELSE <<Head(sorted)>> \o InsertAscending(Tail(sorted), v)

RECURSIVE SortAscending(_)
SortAscending(seq) ==
    IF seq = <<>> THEN <<>>
    ELSE InsertAscending(SortAscending(SubSeq(seq, 1, Len(seq) - 1)), seq[Len(seq)])

Two == <<2, 1>>
Three == <<3, 1>>
Four == <<4, 1>>

\* int(len(metric_values) * (percentile_threshold / 100.0))  (analysis.py line 97)
threshold_idx(n, percentile_threshold) ==
    IntOf(FloatMul(<<n, 1>>, FloatDiv(percentile_threshold, Hundred)))

\* The threshold read from the wrong end of the sorted list:
threshold_value_from_end(metric_values, idx) ==
    LET n == Len(metric_values)
    IN  IF idx < n
        THEN IF idx >= 0 THEN <<metric_values[n - idx]>>
             ELSE IF n + idx >= 0 THEN <<metric_values[n + idx + 1]>>
             ELSE <<>>
        ELSE <<metric_values[1]>>

\* metric_values[threshold_idx] if threshold_idx < len(metric_values) else
\* metric_values[0]; a negative index counts from the end of the list, and
\* one below -len raises IndexError (here: the empty tuple).
threshold_value(metric_values, idx) ==
    LET n == Len(metric_values)
    IN  IF idx < n
        THEN IF idx >= 0 THEN <<metric_values[idx + 1]>>
             ELSE IF n + idx >= 0 THEN <<metric_values[n + idx + 1]>>
             ELSE <<>>
        ELSE <<metric_values[1]>>

\* The speedup of a boring scene, without the cap at 4.
capped_speedup_uncapped(metric_value, threshold) ==
    IF FracLT(Zero, threshold)
    THEN FloatAdd(Two, FloatMul(Two, FloatSub(<<1, 1>>, FloatDiv(metric_value, threshold))))
    ELSE Three

\* The speedup of a boring scene (analysis.py lines 103-112): 2 + 2 * (1 -
\* metric_value / threshold) for a positive threshold, else 3; at most 4.
capped_speedup(metric_value, threshold) ==
    FracMin(IF FracLT(Zero, threshold)
            THEN FloatAdd(Two, FloatMul(Two, FloatSub(<<1, 1>>, FloatDiv(metric_value, threshold))))
            ELSE Three,
            Four)

\* The loop over the scenes (analysis.py lines 101-112): (index, speedup) of
\* every scene below the threshold, the first scene having index 0.
RECURSIVE boring_sections(_, _, _)
boring_sections(scenes, n, threshold) ==
    IF n = 0 THEN <<>>
    ELSE LET before == boring_sections(scenes, n - 1, threshold)
         IN  IF FracLT(scenes[n].metric_value, threshold)
             THEN Append(before, <<n - 1, capped_speedup(scenes[n].metric_value, threshold)>>)
             ELSE before

identify_boring_sections(scenes, percentile_threshold) ==
    IF scenes = <<>> THEN Returned(<<>>)
    ELSE LET metric_values == SortAscending([i \in 1 .. Len(scenes) |-> scenes[i].metric_value])
             threshold == threshold_value(metric_values,
                                          threshold_idx(Len(metric_values), percentile_threshold))
         IN  IF threshold = <<>> THEN Raised
             ELSE Returned(boring_sections(scenes, Len(scenes), threshold[1]))

\* Most scenes in a list with freely drawn metrics, largest metric drawn, and
\* most scenes in a list whose metrics rise by one from scene to scene.
MaxBoringScenes == 3
MaxSceneMetric == 2
MaxRamp == 7

\* The scene list with the given metric values, one second per scene at two
\* frames per second.
ScenesWithMetrics(metrics) ==
    [i \in 1 .. Len(metrics) |-> Scene(i - 1, i, 2 * (i - 1), 2 * i, <<metrics[i], 1>>)]

BoringSceneLists ==
    {ScenesWithMetrics(metrics) : metrics \in SeqsUpTo(-1 .. MaxSceneMetric, MaxBoringScenes)}
      \cup {ScenesWithMetrics([i \in 1 .. n |-> i]) : n \in 1 .. MaxRamp}

\* Percentiles: the whole percents of [0, 100], and values outside the range.
Percentiles == {<<p, 1>> : p \in (0 .. 100) \cup {-150, -50, 150}}

BoringInit ==
    /\ scenesCall \in
         [ scenes               : BoringSceneLists,
           percentile_threshold : Percentiles,
           status               : {"called"},
           value                : {<<>>} ]
    /\ scoreCall = Idle
    /\ poolCall = Idle
    /\ dedupCall = Idle
    /\ genCall = Idle
    /\ gridCall = Idle
    /\ state = Idle
    /\ mainThread = Idle

IdentifyBoringSections ==
    /\ scenesCall.status = "called"
    /\ LET r == identify_boring_sections(scenesCall.scenes, scenesCall.percentile_threshold)
       IN  scenesCall' = [scenesCall EXCEPT !.status = r.status, !.value = r.value]
    /\ UNCHANGED <<scoreCall, dedupCall, genCall, gridCall, poolCall, state, mainThread>>

BoringNext == IdentifyBoringSections

SpecBoring == BoringInit /\ [][BoringNext]_vars

------------------------------------------------------------------------------
(* Properties of identify_boring_sections, checked under SpecBoring *)

\* The percentile of the call lies in [0, 100].
PercentileInRange ==
    /\ FracLE(Zero, scenesCall.percentile_threshold)
    /\ FracLE(scenesCall.percentile_threshold, Hundred)

\* The threshold of the call as the code computed it.
CallThreshold ==
    LET metric_values ==
            SortAscending([i \in 1 .. Len(scenesCall.scenes) |-> scenesCall.scenes[i].metric_value])
    IN  threshold_value(metric_values,
                        threshold_idx(Len(metric_values), scenesCall.percentile_threshold))[1]

\* C16: for every scene list and every percentile_threshold in [0, 100], every
\* speedup factor returned by identify_boring_sections lies in [2, 4], and a
\* returned scene with metric_value = 0 under a threshold > 0 gets exactly 4.
C16_SpeedupInRange ==
    (scenesCall.status = "returned" /\ PercentileInRange) =>
        \A k \in 1 .. Len(scenesCall.value) :
            LET i == scenesCall.value[k][1]
                speedup == scenesCall.value[k][2]
            IN  /\ FracLE(Two, speedup)
                /\ FracLE(speedup, Four)
                /\ (scenesCall.scenes[i + 1].metric_value = Zero /\ FracLT(Zero, CallThreshold))
                     => speedup = Four

\* C16 witness: a scene of metric 0 and a scene of negative metric are both
\* returned under a positive threshold (the second one's uncapped speedup
\* exceeds 4).
C16_Witness ==
    /\ scenesCall.status = "returned"
    /\ PercentileInRange
    /\ scenesCall.value # <<>>
    /\ FracLT(Zero, CallThreshold)
    /\ \E k \in 1 .. Len(scenesCall.value) :
          scenesCall.scenes[scenesCall.value[k][1] + 1].metric_value = Zero
    /\ \E k \in 1 .. Len(scenesCall.value) :
          scenesCall.scenes[scenesCall.value[k][1] + 1].metric_value[1] < 0

\* floor(n * percentile_threshold / 100), exactly.
FloorIndex(n, percentile_threshold) ==
    (n * percentile_threshold[1]) \div (100 * percentile_threshold[2])

\* The threshold the claim names: the sorted metric value at FloorIndex, or
\* the smallest one if that index is out of range.
ClaimedThreshold ==
    LET metric_values ==
            SortAscending([i \in 1 .. Len(scenesCall.scenes) |-> scenesCall.scenes[i].metric_value])
        idx == FloorIndex(Len(metric_values), scenesCall.percentile_threshold)
    IN  IF idx >= 0 /\ idx < Len(metric_values) THEN metric_values[idx + 1] ELSE metric_values[1]

\* C17: identify_boring_sections on N scenes returns exactly the scenes whose
\* metric_value is strictly below T, the ascending-sorted metric value at
\* index floor(N * percentile_threshold / 100) (the smallest value if that
\* index is out of range): each such scene once, in increasing index order,
\* no scene with metric_value = T, and nothing for an empty list.  Stated
\* here for percentiles in [0, 100].
C17_BelowThresholdExactly ==
    (scenesCall.status # "called" /\ PercentileInRange) =>
        /\ scenesCall.status = "returned"
        /\ scenesCall.scenes = <<>> => scenesCall.value = <<>>
        /\ scenesCall.scenes # <<>> =>
             /\ {scenesCall.value[k][1] : k \in 1 .. Len(scenesCall.value)}
                  = {i - 1 : i \in {j \in 1 .. Len(scenesCall.scenes) :
                                      FracLT(scenesCall.scenes[j].metric_value, ClaimedThreshold)}}
             /\ \A k \in 1 .. Len(scenesCall.value) - 1 :
                  scenesCall.value[k][1] < scenesCall.value[k + 1][1]

------------------------------------------------------------------------------
(* smart_crop/analysis/parallel.py: analyze_positions_parallel.  The call
   runs on the main process; with a pool, worker processes take the queued
   tasks in order and finish them in any order. *)

\* _analyze_single_position: the metrics of one position, a function of the
\* position alone (the video and the crop size are the same for every task).
analyze_single_position(position) ==
    PositionMetrics(position.x, position.y, position.x + position.y, position.x, position.y, 0)

Min2(a, b) == IF a <= b THEN a ELSE b

\* The arguments of progress_callback at index i of enumerate, reporting the
\* index instead of the count.
progress_args_from_zero(i, total) == <<i, total>>

\* progress_callback(i + 1, len(args_list))
progress_args(i, total) == <<i + 1, total>>

\* What an iterator that yields results as they complete hands out next: any
\* finished task not handed out yet.
imap_next_unordered(done, yielded) ==
    {task \in done : task[1] \notin yielded}

\* What the iterator of pool.imap can hand out next: the result of the task
\* that follows the ones handed out, once that task is finished.
imap_next(done, yielded) ==
    {task \in done : task[1] = Cardinality(yielded) + 1}

\* The list pool.map returns once every task is finished: the results by
\* task number.
map_results(done) ==
    [i \in 1 .. Cardinality(done) |-> (CHOOSE task \in done : task[1] = i)[2]]

\* Most positions in a call, largest coordinate of a position, largest
\* max_workers passed and most CPUs of the machine.
MaxPoolPositions == 3
MaxPoolCoord == 1
MaxWorkers == 3
MaxCpu == 2

PoolPositions ==
    SeqsUpTo({Position(x, MaxPoolCoord - x) : x \in 0 .. MaxPoolCoord}, MaxPoolPositions)

PoolInit ==
    /\ poolCall \in
         [ positions         : PoolPositions,
           max_workers_given : BOOLEAN,
           max_workers       : 0 .. MaxWorkers,
           cpu_count         : 1 .. MaxCpu,
           has_callback      : BOOLEAN,
           status            : {"called"},
           processes         : {0},
           queued            : {0},
           running           : {{}},
           done              : {{}},
           yielded           : {{}},
           results           : {<<>>},
           progress          : {<<>>} ]
    /\ (poolCall.max_workers_given => poolCall.cpu_count = 1)
    /\ (~ poolCall.max_workers_given => poolCall.max_workers = 0)
    /\ scoreCall = Idle
    /\ dedupCall = Idle
    /\ genCall = Idle
    /\ gridCall = Idle
    /\ scenesCall = Idle
    /\ state = Idle
    /\ mainThread = Idle

\* Entry (parallel.py lines 97-118): the empty list, the number of workers,
\* the guard, and the choice of the sequential loop, imap or map.
PoolEnter ==
    /\ poolCall.status = "called"
    /\ LET n == Len(poolCall.positions)
           max_workers == IF poolCall.max_workers_given THEN poolCall.max_workers
                          ELSE Min2(poolCall.cpu_count, n)
       IN  poolCall' =
             IF n = 0 THEN [poolCall EXCEPT !.status = "returned"]
             ELSE IF max_workers < 1 THEN [poolCall EXCEPT !.status = "raised"]
             ELSE IF max_workers = 1 \/ n = 1
                  THEN [poolCall EXCEPT !.status = "sequential", !.processes = max_workers]
             ELSE IF poolCall.has_callback
                  THEN [poolCall EXCEPT !.status = "imap", !.processes = max_workers]
             ELSE [poolCall EXCEPT !.status = "map", !.processes = max_workers]
    /\ UNCHANGED <<scoreCall, dedupCall, genCall, gridCall, scenesCall, state, mainThread>>

\* One pass of the sequential loop (parallel.py lines 120-126).
SequentialStep ==
    /\ poolCall.status = "sequential"
    /\ Len(poolCall.results) < Len(poolCall.positions)
    /\ LET i == Len(poolCall.results)
       IN  poolCall' =
             [poolCall EXCEPT
                !.results = Append(@, analyze_single_position(poolCall.positions[i + 1])),
                !.progress = IF poolCall.has_callback
                             THEN Append(@, progress_args(i, Len(poolCall.positions)))
                             ELSE @]
    /\ UNCHANGED <<scoreCall, dedupCall, genCall, gridCall, scenesCall, state, mainThread>>

\* The sequential loop is over: return results (parallel.py line 127).
SequentialReturn ==
    /\ poolCall.status = "sequential"
    /\ Len(poolCall.results) = Len(poolCall.positions)
    /\ poolCall' = [poolCall EXCEPT !.status = "returned"]
    /\ UNCHANGED <<scoreCall, dedupCall, genCall, gridCall, scenesCall, state, mainThread>>

\* A free worker of the pool takes the next queued task.
WorkerTake ==
    /\ poolCall.status \in {"imap", "map"}
    /\ poolCall.queued < Len(poolCall.positions)
    /\ Cardinality(poolCall.running) < poolCall.processes
    /\ poolCall' = [poolCall EXCEPT !.queued = @ + 1,
                                    !.running = @ \cup {poolCall.queued + 1}]
    /\ UNCHANGED <<scoreCall, dedupCall, genCall, gridCall, scenesCall, state, mainThread>>

\* A worker finishes its task: the result goes back with the task's number.
WorkerFinish ==
    /\ poolCall.status \in {"imap", "map"}
    /\ \E k \in poolCall.running :
          poolCall' = [poolCall EXCEPT
                         !.running = @ \ {k},
                         !.done = @ \cup {<<k, analyze_single_position(poolCall.positions[k])>>}]
    /\ UNCHANGED <<scoreCall, dedupCall, genCall, gridCall, scenesCall, state, mainThread>>

\* One pass of the loop over pool.imap (parallel.py lines 134-136).
ImapYield ==
    /\ poolCall.status = "imap"
    /\ \E task \in imap_next(poolCall.done, poolCall.yielded) :
          poolCall' = [poolCall EXCEPT
                         !.yielded = @ \cup {task[1]},
                         !.results = Append(@, task[2]),
                         !.progress = Append(@, progress_args(Len(poolCall.results),
                                                              Len(poolCall.positions)))]
    /\ UNCHANGED <<scoreCall, dedupCall, genCall, gridCall, scenesCall, state, mainThread>>

\* pool.imap is exhausted: return results (parallel.py line 137).
ImapReturn ==
    /\ poolCall.status = "imap"
    /\ Cardinality(poolCall.yielded) = Len(poolCall.positions)
    /\ poolCall' = [poolCall EXCEPT !.status = "returned"]
    /\ UNCHANGED <<scoreCall, dedupCall, genCall, gridCall, scenesCall, state, mainThread>>

\* pool.map returns when every task is finished (parallel.py lines 138-140).
MapReturn ==
    /\ poolCall.status = "map"
    /\ Cardinality(poolCall.done) = Len(poolCall.positions)
    /\ poolCall' = [poolCall EXCEPT !.status = "returned",
                                    !.results = map_results(poolCall.done)]
    /\ UNCHANGED <<scoreCall, dedupCall, genCall, gridCall, scenesCall, state, mainThread>>

PoolNext ==
    \/ PoolEnter
    \/ SequentialStep
    \/ SequentialReturn
    \/ WorkerTake
    \/ WorkerFinish
    \/ ImapYield
    \/ ImapReturn
    \/ MapReturn

SpecPool == PoolInit /\ [][PoolNext]_vars

------------------------------------------------------------------------------
(* Properties of analyze_positions_parallel, checked under SpecPool *)

\* The results of the positions of the call, in the order of the positions.
ResultsInInputOrder ==
    [i \in 1 .. Len(poolCall.positions) |-> analyze_single_position(poolCall.positions[i])]

\* C18: for every position list and every max_workers >= 1,
\* analyze_positions_parallel returns one result per input position, result i
\* being the one of input position i, whatever order the workers finish in;
\* the pooled runs and the sequential run therefore return the same list.
C18_ResultsInInputOrder ==
    poolCall.status = "returned" =>
        /\ Len(poolCall.results) = Len(poolCall.positions)
        /\ \A i \in 1 .. Len(poolCall.positions) :
             /\ poolCall.results[i].x = poolCall.positions[i].x
             /\ poolCall.results[i].y = poolCall.positions[i].y
        /\ poolCall.results = ResultsInInputOrder

\* C18 witness: a pooled run with a callback over three positions, the first
\* two different, where the second task has finished while the first is still
\* running.
C18_Witness ==
    /\ poolCall.status = "imap"
    /\ Len(poolCall.positions) = 3
    /\ poolCall.positions[1] # poolCall.positions[2]
    /\ 1 \in poolCall.running
    /\ \E task \in poolCall.done : task[1] = 2

\* C19: when a progress callback is supplied with N positions, it is invoked
\* with (1, N), (2, N), ... in that order, never out of order or repeated,
\* exactly N times by the time the call returns, on the sequential and on the
\* pooled path whatever order the workers finish in; it is never invoked
\* for zero positions (nor when no callback is supplied).
C19_ProgressCounts ==
    /\ Len(poolCall.progress) <= Len(poolCall.positions)
    /\ \A k \in 1 .. Len(poolCall.progress) :
         poolCall.progress[k] = <<k, Len(poolCall.positions)>>
    /\ (poolCall.status = "returned" /\ poolCall.has_callback)
         => Len(poolCall.progress) = Len(poolCall.positions)
    /\ ~ poolCall.has_callback => poolCall.progress = <<>>

\* C19 witness: a pooled run with a callback has returned after three
\* invocations of the callback.
C19_Witness ==
    /\ poolCall.status = "returned"
    /\ poolCall.has_callback
    /\ poolCall.processes >= 2
    /\ Len(poolCall.progress) = 3

------------------------------------------------------------------------------
(* smart_crop/core/candidates.py: generate_spatial_candidates called on its
   own, with its guards *)

\* generate_spatial_candidates with the guards of lines 143-147.
call_generate_spatial_candidates(positions, bounds, video_width, video_height) ==
    IF positions = <<>> THEN Raised
    ELSE IF video_width <= 0 \/ video_height <= 0 THEN Raised
    ELSE Returned(generate_spatial_candidates(positions, bounds, video_width, video_height))

\* Points of an 8x8 frame: one in each quadrant away from the center, and two
\* inside the center region (top-left and bottom-right of the center).
SpatialPoints == {<<1, 1>>, <<6, 1>>, <<1, 6>>, <<6, 6>>, <<3, 3>>, <<4, 4>>}

SpatialPositions ==
    {PositionMetrics(p[1], p[2], m[1], m[2], m[3], m[4]) :
        p \in SpatialPoints, m \in MetricVectors}

\* Frame sizes: 8x8, 5x7 (whose center region holds none of the points) and
\* sizes that are not positive.
SpatialFrames == {<<8, 8>>, <<5, 7>>, <<0, 8>>, <<8, -1>>}

SpatialInit ==
    /\ genCall \in
         {GenCallOf(ps, b, dims, 1, 1) :
             ps \in SeqsUpTo(SpatialPositions, MaxPositions),
             b \in {"derived", "unit"},
             dims \in SpatialFrames}
    /\ (genCall.positions = <<>> => genCall.bounds = "unit")
    /\ scoreCall = Idle
    /\ poolCall = Idle
    /\ dedupCall = Idle
    /\ gridCall = Idle
    /\ scenesCall = Idle
    /\ state = Idle
    /\ mainThread = Idle

GenerateSpatialCandidates ==
    /\ genCall.status = "called"
    /\ LET r == call_generate_spatial_candidates(
                    genCall.positions,
                    IF genCall.positions = <<>> THEN UnitBounds ELSE BoundsOf(genCall),
                    genCall.video_width, genCall.video_height)
       IN  genCall' = [genCall EXCEPT !.status = r.status, !.value = r.value]
    /\ UNCHANGED <<scoreCall, dedupCall, gridCall, scenesCall, poolCall, state, mainThread>>

SpatialNext == GenerateSpatialCandidates

SpecSpatial == SpatialInit /\ [][SpatialNext]_vars

------------------------------------------------------------------------------
(* Properties of generate_spatial_candidates, checked under SpecSpatial *)

\* The positions of the call (by index) that lie in a region.
InRegionOfCall(name) ==
    {i \in 1 .. Len(genCall.positions) :
        region_filter(name, genCall.positions[i], genCall.video_width, genCall.video_height)}

\* The Balanced score of position i of the call.
BalancedScoreOfCall(i) ==
    score_position(genCall.positions[i],
                   IF genCall.bounds = "derived" THEN from_positions(genCall.positions)
                   ELSE UnitBounds,
                   "Balanced")

\* C20: for every non-empty position list and positive video dimensions,
\* generate_spatial_candidates returns exactly one candidate for each of the
\* five regions that holds a position and none for an empty region; the
\* candidate of a region is a position of that region whose Balanced score is
\* the largest of the region, and it is tagged "Spatial:<RegionName>".
C20_OneBestPerRegion ==
    (genCall.status # "called" /\ genCall.positions # <<>>
       /\ genCall.video_width > 0 /\ genCall.video_height > 0) =>
        /\ genCall.status = "returned"
        /\ \A k \in 1 .. Len(genCall.value) :
             \E r \in 1 .. Len(RegionNames) :
                 genCall.value[k].strategy = "Spatial:" \o RegionNames[r]
        /\ \A r \in 1 .. Len(RegionNames) :
             LET tagged == {k \in 1 .. Len(genCall.value) :
                               genCall.value[k].strategy = "Spatial:" \o RegionNames[r]}
                 inside == InRegionOfCall(RegionNames[r])
             IN  /\ Cardinality(tagged) = IF inside = {} THEN 0 ELSE 1
                 /\ \A k \in tagged :
                      /\ \E i \in inside :
                           /\ genCall.value[k].x = genCall.positions[i].x
                           /\ genCall.value[k].y = genCall.positions[i].y
                           /\ FracEq(genCall.value[k].score, BalancedScoreOfCall(i))
                      /\ \A i \in inside :
                           FracLE(BalancedScoreOfCall(i), genCall.value[k].score)

\* C20 witness: two positions of different Balanced scores in the top-left
\* quadrant, the better one second in the list, one of them also in the
\* center region; the other quadrants are empty.
C20_Witness ==
    /\ genCall.status = "returned"
    /\ Len(genCall.positions) = 2
    /\ InRegionOfCall("Top-Left") = {1, 2}
    /\ InRegionOfCall("Center") # {}
    /\ InRegionOfCall("Bottom-Right") = {}
    /\ FracLT(BalancedScoreOfCall(1), BalancedScoreOfCall(2))
    /\ Len(genCall.value) = 2

------------------------------------------------------------------------------
(* The end-to-end scenario of tests/unit/test_candidates.py
   (TestCandidateGenerationIntegration): the 25 positions of a 5x5 grid on a
   1920x1080 frame, each metric growing linearly with the grid index, bounds
   derived from the positions, max_candidates = 10, top_per_strategy = 5. *)

\* Steepest growth of a metric per grid index.
MaxSlope == 2

\* The movement ranges (max_x, max_y) of the grid: crops of 640x360, 320x180,
\* 920x80 and 1x1 in the 1920x1080 frame.  Each grid reaches into all four
\* quadrants around the centre (960, 540).
ScenarioRanges == {<<1280, 720>>, <<1600, 900>>, <<1000, 1000>>, <<1919, 1079>>}

\* The positions of the grid, position k (from 1) carrying the metrics
\* slope * (k - 1) + 1.
ScenarioPositions(range, slopes) ==
    LET grid == generate_analysis_grid(range[1], range[2], 5).value
    IN  [k \in 1 .. Len(grid) |->
            PositionMetrics(grid[k].x, grid[k].y,
                            slopes[1] * (k - 1) + 1, slopes[2] * (k - 1) + 1,
                            slopes[3] * (k - 1) + 1, slopes[4] * (k - 1) + 1)]

ScenarioInit ==
    /\ genCall \in
         {GenCallOf(ScenarioPositions(range, slopes), "derived", <<1920, 1080>>, 10, 5) :
             range \in ScenarioRanges,
             slopes \in (1 .. MaxSlope) \X (1 .. MaxSlope) \X (1 .. MaxSlope) \X (1 .. MaxSlope)}
    /\ scoreCall = Idle
    /\ poolCall = Idle
    /\ dedupCall = Idle
    /\ gridCall = Idle
    /\ scenesCall = Idle
    /\ state = Idle
    /\ mainThread = Idle

ScenarioNext == GenerateCandidates

SpecScenario == ScenarioInit /\ [][ScenarioNext]_vars

SpatialLabels == {"Spatial:" \o RegionNames[i] : i \in 1 .. Len(RegionNames)}

HasSpatialLabel(list) == \E i \in 1 .. Len(list) : list[i].strategy \in SpatialLabels

\* The positions of the call reach all four quadrants of the frame.
SpansAllQuadrants ==
    \A q \in 1 .. 4 : \E i \in 1 .. Len(genCall.positions) :
        region_filter(RegionNames[q], genCall.positions[i],
                      genCall.video_width, genCall.video_height)

------------------------------------------------------------------------------
(* The position analysis of main() (smart-crop-video.py lines 1188-1384): the
   5x5 grid of the movement range, one metric vector per grid position, the
   candidates of these positions (5 per strategy, at most 10), and then the
   automatic selection unique_candidates[0]. *)

\* Largest movement range max_x / max_y of the analysed video.
MaxRange == 2

\* The movement ranges main() analyses: max_x = width - crop_w and
\* max_y = height - crop_h are not negative, and the analysis is skipped when
\* both are zero (line 1188).
AnalysisInit ==
    /\ gridCall \in
         {[max_x |-> r[1], max_y |-> r[2], grid_size |-> 5, status |-> "called", value |-> <<>>] :
             r \in {q \in (0 .. MaxRange) \X (0 .. MaxRange) : q[1] > 0 \/ q[2] > 0}}
    /\ genCall = Idle
    /\ scoreCall = Idle
    /\ poolCall = Idle
    /\ dedupCall = Idle
    /\ scenesCall = Idle
    /\ state = Idle
    /\ mainThread = Idle

\* analyze_positions_parallel gives each grid position its metrics (here
\* constant, or growing with the grid index); the bounds are the minima and
\* maxima of these metrics and the frame is the movement range plus a 2x2 crop.
AnalyzePositions ==
    /\ gridCall.status = "returned"
    /\ genCall = Idle
    /\ \E slopes \in {0, MaxSlope} \X {0, MaxSlope} \X {0, MaxSlope} \X {0, MaxSlope} :
          genCall' = GenCallOf(ScenarioPositions(<<gridCall.max_x, gridCall.max_y>>, slopes),
                               "derived", <<gridCall.max_x + 2, gridCall.max_y + 2>>, 10, 5)
    /\ UNCHANGED <<scoreCall, dedupCall, gridCall, scenesCall, poolCall, state, mainThread>>

AnalysisNext == GenerateAnalysisGrid \/ AnalyzePositions \/ GenerateCandidates

SpecAnalysis == AnalysisInit /\ [][AnalysisNext]_vars

\* C21 as stated: for every max_x >= 0 and max_y >= 0 that are not both zero
\* and any metric values, the candidates generated (top 5 per strategy, at most
\* 10) from the 5x5 grid of generate_analysis_grid are at least one, so that
\* unique_candidates[0] exists.  Violated: when one of max_x, max_y is zero,
\* every grid position lies on that edge and the deduplication drops them all.
C21_CandidatesNeverEmpty ==
    (gridCall.status = "returned" /\ genCall.status = "returned") =>
        Len(genCall.value) >= 1

------------------------------------------------------------------------------
(* The grid_size check of generate_analysis_grid, checked under SpecGrid *)

\* C22 as stated: generate_analysis_grid raises ValueError for every
\* grid_size < 1, whatever max_x and max_y are (also for max_x = max_y = 0 and
\* for negative values); it never answers an invalid grid_size with a grid.
\* Violated: the check for "no movement" comes first and returns the single
\* position (0, 0) before grid_size is looked at.
C22_InvalidGridSizeRaises ==
    (gridCall.status \in {"returned", "raised"} /\ gridCall.grid_size < 1) =>
        gridCall.status = "raised"

------------------------------------------------------------------------------
(* The scenes of create_scenes_from_timestamps one by one, checked under
   SpecScenes *)

\* C23 as stated: every scene returned by create_scenes_from_timestamps has
\* end_time >= start_time and end_frame >= start_frame (duration >= 0 and
\* frame_count >= 0), for every list of cuts, also cuts given out of order or
\* with equal timestamps.  Violated: the boundaries are sorted by timestamp
\* only, so the frame numbers of two cuts can follow each other backwards.
C23_ScenesWellFormed ==
    scenesCall.status = "returned" =>
        \A i \in 1 .. Len(scenesCall.value) :
            /\ scenesCall.value[i].end_time >= scenesCall.value[i].start_time
            /\ scenesCall.value[i].end_frame >= scenesCall.value[i].start_frame

------------------------------------------------------------------------------
(* Two calls of identify_boring_sections on the same scenes, the first with
   the lower and the second with the higher percentile, as in
   test_custom_percentile_threshold (tests/unit/test_scene_analysis.py lines
   145-159). *)

\* The percentiles of the two calls: both ends of [0, 100] and values between.
PairPercentiles == {<<p, 1>> : p \in {0, 20, 30, 50, 80, 99, 100}}

PairInit ==
    /\ scenesCall \in
         {[scenes |-> scenes, percentile_low |-> pp[1], percentile_high |-> pp[2], status |-> "called", boring_low |-> <<>>, boring_high |-> <<>>] :
             scenes \in BoringSceneLists,
             pp \in {q \in PairPercentiles \X PairPercentiles : FracLE(q[1], q[2])}}
    /\ scoreCall = Idle
    /\ poolCall = Idle
    /\ dedupCall = Idle
    /\ genCall = Idle
    /\ gridCall = Idle
    /\ state = Idle
    /\ mainThread = Idle

\* boring_20 = identify_boring_sections(scenes, percentile_threshold=20.0)
IdentifyBoringLow ==
    /\ scenesCall.status = "called"
    /\ LET r == identify_boring_sections(scenesCall.scenes, scenesCall.percentile_low)
       IN  scenesCall' = [scenesCall EXCEPT
                            !.status = IF r.status = "returned" THEN "low_returned" ELSE "raised",
                            !.boring_low = r.value]
    /\ UNCHANGED <<scoreCall, dedupCall, genCall, gridCall, poolCall, state, mainThread>>

\* boring_80 = identify_boring_sections(scenes, percentile_threshold=80.0)
IdentifyBoringHigh ==
    /\ scenesCall.status = "low_returned"
    /\ LET r == identify_boring_sections(scenesCall.scenes, scenesCall.percentile_high)
       IN  scenesCall' = [scenesCall EXCEPT !.status = r.status, !.boring_high = r.value]
    /\ UNCHANGED <<scoreCall, dedupCall, genCall, gridCall, poolCall, state, mainThread>>

PairNext == IdentifyBoringLow \/ IdentifyBoringHigh

SpecPair == PairInit /\ [][PairNext]_vars

\* C24 as stated: for every scene list and every p1 <= p2 in [0, 100],
\* identify_boring_sections returns at most as many scenes with percentile p1
\* as with percentile p2.  Violated with p2 = 100: the index is then out of
\* range, the threshold falls back to the smallest metric and nothing is
\* returned, whatever p1 gave.
C24_MonotoneInPercentile ==
    scenesCall.status = "returned" =>
        Len(scenesCall.boring_low) <= Len(scenesCall.boring_high)

\* C24 as amended: for every scene list and every p1 <= p2 in [0, 100) the
\* call with p1 returns at most as many scenes as the call with p2, and the
\* call with percentile 100 returns no scene.
C24_MonotoneBelowHundred ==
    scenesCall.status = "returned" =>
        /\ FracLT(scenesCall.percentile_high, Hundred) =>
               Len(scenesCall.boring_low) <= Len(scenesCall.boring_high)
        /\ FracEq(scenesCall.percentile_high, Hundred) => scenesCall.boring_high = <<>>

\* C24 witness: both calls have returned, the lower percentile found a scene
\* and the higher percentile, below 100, found more.
C24_Witness ==
    /\ scenesCall.status = "returned"
    /\ FracLT(scenesCall.percentile_low, scenesCall.percentile_high)
    /\ FracLT(scenesCall.percentile_high, Hundred)
    /\ Len(scenesCall.boring_low) >= 1
    /\ Len(scenesCall.boring_low) < Len(scenesCall.boring_high)

------------------------------------------------------------------------------
(* smart_crop/scene/analysis.py: calculate_speedup_factor *)

\* calculate_speedup_factor (analysis.py lines 118-151)
calculate_speedup_factor(metric_value, threshold, min_speedup, max_speedup) ==
    IF FracLE(threshold, Zero)
    THEN FloatDiv(FloatAdd(min_speedup, max_speedup), Two)
    ELSE LET ratio == FloatDiv(metric_value, threshold)
             speedup == FloatAdd(min_speedup,
                                 FloatMul(FloatSub(max_speedup, min_speedup),
                                          FloatSub(<<1, 1>>, ratio)))
         IN  FracMin(speedup, max_speedup)

\* Largest metric_value and threshold drawn, and largest speedup in halves.
MaxSpeedupMetric == 3
MaxSpeedupHalves == 8

\* min_speedup and max_speedup: halves from 1.0 on.
SpeedupLimits == {Frac(h, 2) : h \in 2 .. MaxSpeedupHalves}

SpeedupInit ==
    /\ scenesCall \in
         [ metric_value : {<<m, 1>> : m \in 0 .. MaxSpeedupMetric},
           threshold    : {<<t, 1>> : t \in -1 .. MaxSpeedupMetric},
           min_speedup  : SpeedupLimits,
           max_speedup  : SpeedupLimits,
           status       : {"called"},
           value        : {<<>>} ]
    /\ FracLE(scenesCall.min_speedup, scenesCall.max_speedup)
    /\ scoreCall = Idle
    /\ poolCall = Idle
    /\ dedupCall = Idle
    /\ genCall = Idle
    /\ gridCall = Idle
    /\ state = Idle
    /\ mainThread = Idle

CalculateSpeedupFactor ==
    /\ scenesCall.status = "called"
    /\ scenesCall' = [scenesCall EXCEPT
                        !.status = "returned",
                        !.value = calculate_speedup_factor(scenesCall.metric_value, scenesCall.threshold,
                                                           scenesCall.min_speedup, scenesCall.max_speedup)]
    /\ UNCHANGED <<scoreCall, dedupCall, genCall, gridCall, poolCall, state, mainThread>>

SpeedupNext == CalculateSpeedupFactor

SpecSpeedup == SpeedupInit /\ [][SpeedupNext]_vars

\* C25 as stated: for every metric_value >= 0, every threshold and every
\* min_speedup <= max_speedup, calculate_speedup_factor returns a value in
\* [min_speedup, max_speedup].  Violated: a metric_value above a positive
\* threshold gives a value below min_speedup, which only the cap at
\* max_speedup limits.
C25_SpeedupWithinLimits ==
    scenesCall.status = "returned" =>
        /\ FracLE(scenesCall.min_speedup, scenesCall.value)
        /\ FracLE(scenesCall.value, scenesCall.max_speedup)

------------------------------------------------------------------------------
(* smart_crop/core/scoring.py with a custom entry in the STRATEGIES table:
   the table is a module-level dict, and an entry put there at runtime is
   what score_position reads. *)

\* Sum of the values of a weight table.
RECURSIVE SumOfWeights(_, _)
SumOfWeights(weights, keys) ==
    IF keys = {} THEN 0
    ELSE LET k == CHOOSE key \in keys : TRUE
         IN  weights[k] + SumOfWeights(weights, keys \ {k})

\* validate_strategy_weights (scoring.py lines 266-309), weights in
\* hundredths: TRUE when it returns True, FALSE when it raises ValueError.
validate_strategy_weights(weights) ==
    /\ DOMAIN weights = Metrics
    /\ \A key \in DOMAIN weights : weights[key] >= 0
    /\ SumOfWeights(weights, DOMAIN weights) >= 99
    /\ SumOfWeights(weights, DOMAIN weights) <= 101

\* score_position (scoring.py lines 192-215) reading the table given: ValueError
\* for an unknown strategy name, KeyError when the sum reads a weight the
\* table does not hold, else the weighted sum.  There is no other check.
score_position_in(table, metrics, bounds, strategy) ==
    IF strategy \notin DOMAIN table THEN [status |-> "raised", value |-> Zero]
    ELSE LET weights == table[strategy]
         IN  IF ~ (Metrics \subseteq DOMAIN weights)
             THEN [status |-> "key_error", value |-> Zero]
             ELSE Returned(weighted_sum(normalized_metrics(metrics, bounds), weights))

\* The weights of a custom table, in hundredths.
CustomWeights == {-25, 0, 25, 50}

\* Custom tables: the four keys, one key missing, one key too many.
CustomTables ==
    [Metrics -> CustomWeights]
      \cup [Metrics \ {"motion"} -> CustomWeights]
      \cup {w @@ ("extra" :> 0) : w \in [Metrics -> CustomWeights]}

CustomInit ==
    /\ scoreCall \in
         [ table    : {STRATEGIES @@ ("Custom" :> w) : w \in CustomTables},
           metrics  : {PositionMetrics(1, 1, m, m, MaxMetric - m, m) : m \in MetricVals},
           bounds   : {NormalizationBounds(<<0, MaxMetric>>, <<0, MaxMetric>>, <<0, MaxMetric>>, <<0, MaxMetric>>)},
           strategy : {"Custom", "Balanced", "Unknown"},
           status   : {"called"},
           score    : {Zero} ]
    /\ dedupCall = Idle
    /\ poolCall = Idle
    /\ genCall = Idle
    /\ gridCall = Idle
    /\ scenesCall = Idle
    /\ state = Idle
    /\ mainThread = Idle

ScoreCustom ==
    /\ scoreCall.status = "called"
    /\ LET r == score_position_in(scoreCall.table, scoreCall.metrics, scoreCall.bounds, scoreCall.strategy)
       IN  scoreCall' = [scoreCall EXCEPT !.status = r.status, !.score = r.value]
    /\ UNCHANGED <<dedupCall, genCall, gridCall, scenesCall, poolCall, state, mainThread>>

CustomNext == ScoreCustom

SpecCustom == CustomInit /\ [][CustomNext]_vars

\* C26 as stated: a weight table that fails validate_strategy_weights (missing
\* or extra keys, a negative weight, a sum outside 1.0 +/- 0.01) is never used
\* to compute a score: score_position on a strategy with such a table fails
\* and returns no value.  Violated: score_position never validates the table
\* it reads; only a table without one of the four keys stops it (KeyError).
C26_MalformedTableNeverScores ==
    ( /\ scoreCall.status # "called"
      /\ scoreCall.strategy \in DOMAIN scoreCall.table
      /\ ~ validate_strategy_weights(scoreCall.table[scoreCall.strategy]) )
        => scoreCall.status # "returned"

------------------------------------------------------------------------------
(* The labels of the candidates generate_candidates returns, checked under
   SpecScenario *)

\* The candidates of the Balanced strategy and of the spatial pass of the call.
BalancedPicks ==
    generate_strategy_candidates(genCall.positions, BoundsOf(genCall), "Balanced",
                                 genCall.top_per_strategy)

SpatialPicks ==
    generate_spatial_candidates(genCall.positions, BoundsOf(genCall),
                                genCall.video_width, genCall.video_height)

\* The list holds a candidate at the (x, y) of candidate c.
PicksPosition(list, c) == \E j \in 1 .. Len(list) : list[j].x = c.x /\ list[j].y = c.y

\* C27: in the list returned by generate_candidates an entry labelled
\* "Spatial:<Region>" stands only at a position that is not among the
\* top_per_strategy picks of the Balanced strategy: where Balanced and the
\* spatial pass pick the same position (with equal scores), the entry kept
\* by the deduplication carries the name of a strategy.
C27_SpatialLabelOnlyOutsideBalanced ==
    genCall.status = "returned" =>
        \A i \in 1 .. Len(genCall.value) :
            /\ genCall.value[i].strategy \in SpatialLabels =>
                   ~ PicksPosition(BalancedPicks, genCall.value[i])
            /\ PicksPosition(BalancedPicks, genCall.value[i]) =>
                   genCall.value[i].strategy \in StrategyNames

\* C27 witness: the returned list holds an entry with a spatial label, and an
\* entry at a position picked by both Balanced and the spatial pass.
C27_Witness ==
    /\ genCall.status = "returned"
    /\ HasSpatialLabel(genCall.value)
    /\ \E i \in 1 .. Len(genCall.value) :
          /\ PicksPosition(BalancedPicks, genCall.value[i])
          /\ PicksPosition(SpatialPicks, genCall.value[i])

------------------------------------------------------------------------------
(* How many scenes identify_boring_sections returns, checked under SpecBoring *)

\* The largest metric_value of the scenes of the call.
MaxMetricValue ==
    CHOOSE m \in {scenesCall.scenes[i].metric_value : i \in 1 .. Len(scenesCall.scenes)} :
        \A j \in 1 .. Len(scenesCall.scenes) : FracLE(scenesCall.scenes[j].metric_value, m)

\* C28 as stated: for N scenes and a percentile_threshold p in [0, 100],
\* identify_boring_sections returns at most floor(N * p / 100) scenes and never
\* a scene holding the largest metric_value of the list, so that a single
\* scene, or scenes with equal metric values, give an empty result.  Violated
\* in its first part: the index is computed in floating point, as
\* int(N * (p / 100.0)), and where the rounding lifts the product to the next
\* whole number one more scene than floor(N * p / 100) lies below the threshold.
C28_AtMostFloorNeverMax ==
    (scenesCall.status = "returned" /\ PercentileInRange /\ scenesCall.scenes # <<>>) =>
        /\ Len(scenesCall.value) <= FloorIndex(Len(scenesCall.scenes), scenesCall.percentile_threshold)
        /\ \A k \in 1 .. Len(scenesCall.value) :
               ~ FracEq(scenesCall.scenes[scenesCall.value[k][1] + 1].metric_value, MaxMetricValue)

------------------------------------------------------------------------------
(* smart-crop-video.py: the shared AppState, the handlers of the web server
   and the main flow.  main() starts the Flask server in a daemon thread
   (line 1133) and then runs the flow below; each request runs its handler in
   a thread of the server.  Every update and every get of the state takes
   the lock of AppState, so each one is one step; the steps of the threads
   interleave freely. *)

\* Most candidates the analysis leaves, and largest index a request sends.
MaxAppCandidates == 2
MaxSelectIndex == 3

\* AppState.__init__ (lines 56-71): the fields the flow and the handlers of
\* /api/select, /api/acceleration and /api/scene_selections write; the list
\* of candidates is kept by its length.
AppState ==
    [ status              |-> "initializing",
      candidates          |-> 0,
      selected_index      |-> None,
      enable_acceleration |-> None,
      scene_selections    |-> None ]

\* main() after the server thread has started: AUTO_CONFIRM is set or not.
AppInit ==
    /\ state = AppState
    /\ mainThread \in
         [ pc                : {"start"},
           auto_confirm      : BOOLEAN,
           unique_candidates : {0},
           web_selection     : {None},
           selected          : {None} ]
    /\ scoreCall = Idle
    /\ dedupCall = Idle
    /\ genCall = Idle
    /\ gridCall = Idle
    /\ scenesCall = Idle
    /\ poolCall = Idle

\* The server answers requests until the process ends.
ServerRunning == mainThread.pc \notin {"crashed", "exited"}

\* api_select (lines 519-523): any index the int converter of the route
\* accepts, at any time.
ApiSelect ==
    /\ ServerRunning
    /\ \E index \in 0 .. MaxSelectIndex :
          state' = [state EXCEPT !.selected_index = Some(index),
                                 !.status = "awaiting_acceleration_choice"]
    /\ UNCHANGED <<scoreCall, dedupCall, genCall, gridCall, scenesCall, poolCall, mainThread>>

\* api_acceleration (lines 525-530)
ApiAcceleration ==
    /\ ServerRunning
    /\ \E enable \in BOOLEAN :
          state' = [state EXCEPT !.enable_acceleration = Some(enable)]
    /\ UNCHANGED <<scoreCall, dedupCall, genCall, gridCall, scenesCall, poolCall, mainThread>>

\* api_scene_selections (lines 542-551)
ApiSceneSelections ==
    /\ ServerRunning
    /\ state' = [state EXCEPT !.scene_selections = Some(TRUE)]
    /\ UNCHANGED <<scoreCall, dedupCall, genCall, gridCall, scenesCall, poolCall, mainThread>>

\* main(), lines 1188-1194: no analysis when the crop fills the video.
MainStart ==
    /\ mainThread.pc = "start"
    /\ \/ /\ state' = [state EXCEPT !.status = "awaiting_acceleration_choice"]
          /\ mainThread' = [mainThread EXCEPT !.pc = "acceleration"]
       \/ /\ state' = [state EXCEPT !.status = "analyzing"]
          /\ mainThread' = [mainThread EXCEPT !.pc = "analyzing"]
    /\ UNCHANGED <<scoreCall, dedupCall, genCall, gridCall, scenesCall, poolCall>>

\* Lines 1208-1324: the analysis and the candidates, then the previews.
MainAnalyze ==
    /\ mainThread.pc = "analyzing"
    /\ \E n \in 1 .. MaxAppCandidates :
          mainThread' = [mainThread EXCEPT !.pc = "previews", !.unique_candidates = n]
    /\ state' = [state EXCEPT !.status = "generating_previews"]
    /\ UNCHANGED <<scoreCall, dedupCall, genCall, gridCall, scenesCall, poolCall>>

\* Line 1364
MainCandidatesReady ==
    /\ mainThread.pc = "previews"
    /\ state' = [state EXCEPT !.status = "candidates_ready",
                              !.candidates = mainThread.unique_candidates]
    /\ mainThread' = [mainThread EXCEPT !.pc = "select"]
    /\ UNCHANGED <<scoreCall, dedupCall, genCall, gridCall, scenesCall, poolCall>>

\* selected = unique_candidates[web_selection - 1] (lines 1382 and 1412): the
\* index 0 reads the last candidate, an index beyond the list raises
\* IndexError and ends the process.
use_web_selection(thread, web_selection) ==
    IF web_selection - 1 >= thread.unique_candidates
    THEN [thread EXCEPT !.pc = "crashed", !.web_selection = Some(web_selection)]
    ELSE [thread EXCEPT !.pc = "selected", !.web_selection = Some(web_selection),
                        !.selected = Some(IF web_selection = 0 THEN thread.unique_candidates
                                          ELSE web_selection)]

\* Lines 1375-1384: AUTO_CONFIRM, or a selection the web UI has already made,
\* or else the wait for one.
MainSelect ==
    /\ mainThread.pc = "select"
    /\ mainThread' =
         IF mainThread.auto_confirm THEN [mainThread EXCEPT !.pc = "selected", !.selected = Some(1)]
         ELSE IF state.selected_index # None THEN use_web_selection(mainThread, state.selected_index[1])
         ELSE [mainThread EXCEPT !.pc = "polling"]
    /\ UNCHANGED <<scoreCall, dedupCall, genCall, gridCall, scenesCall, poolCall, state>>

\* Lines 1407-1413: a pass of the polling loop that finds a web selection.
MainPollWeb ==
    /\ mainThread.pc = "polling"
    /\ state.selected_index # None
    /\ mainThread' = use_web_selection(mainThread, state.selected_index[1])
    /\ UNCHANGED <<scoreCall, dedupCall, genCall, gridCall, scenesCall, poolCall, state>>

\* Lines 1415-1462: text input or the timeout.  A number within the list is
\* stored as selected_index; anything else is the automatic selection.
MainPollText ==
    /\ mainThread.pc = "polling"
    /\ \/ \E choice \in 1 .. mainThread.unique_candidates :
             /\ state' = [state EXCEPT !.selected_index = Some(choice)]
             /\ mainThread' = [mainThread EXCEPT !.pc = "selected", !.selected = Some(choice)]
       \/ /\ mainThread' = [mainThread EXCEPT !.pc = "selected", !.selected = Some(1)]
          /\ UNCHANGED state
    /\ UNCHANGED <<scoreCall, dedupCall, genCall, gridCall, scenesCall, poolCall>>

\* Line 1469
MainSelected ==
    /\ mainThread.pc = "selected"
    /\ state' = [state EXCEPT !.status = "awaiting_acceleration_choice"]
    /\ mainThread' = [mainThread EXCEPT !.pc = "acceleration"]
    /\ UNCHANGED <<scoreCall, dedupCall, genCall, gridCall, scenesCall, poolCall>>

\* Lines 1478-1565: enable_speedup from the environment, the web UI or the
\* text input.
MainAcceleration ==
    /\ mainThread.pc = "acceleration"
    /\ \E enable_speedup \in BOOLEAN :
          mainThread' = [mainThread EXCEPT !.pc = IF enable_speedup THEN "temporal" ELSE "encode"]
    /\ UNCHANGED <<scoreCall, dedupCall, genCall, gridCall, scenesCall, poolCall, state>>

\* analyze_temporal_patterns, line 960
MainTemporal ==
    /\ mainThread.pc = "temporal"
    /\ state' = [state EXCEPT !.status = "analyzing_temporal"]
    /\ mainThread' = [mainThread EXCEPT !.pc = "temporal_scenes"]
    /\ UNCHANGED <<scoreCall, dedupCall, genCall, gridCall, scenesCall, poolCall>>

\* analyze_temporal_patterns, lines 976-1003: too few scenes (None), or the
\* scenes and the wait for the selection.
MainTemporalScenes ==
    /\ mainThread.pc = "temporal_scenes"
    /\ \/ /\ mainThread' = [mainThread EXCEPT !.pc = "encode"]
          /\ UNCHANGED state
       \/ /\ state' = [state EXCEPT !.status = "awaiting_scene_selection"]
          /\ mainThread' = [mainThread EXCEPT !.pc = "scene_selection"]
    /\ UNCHANGED <<scoreCall, dedupCall, genCall, gridCall, scenesCall, poolCall>>

\* Lines 1575-1603: the scene selections of the web UI, or the timeout.
MainSceneSelection ==
    /\ mainThread.pc = "scene_selection"
    /\ mainThread' = [mainThread EXCEPT !.pc = "encode"]
    /\ UNCHANGED <<scoreCall, dedupCall, genCall, gridCall, scenesCall, poolCall, state>>

\* Line 1614
MainEncode ==
    /\ mainThread.pc = "encode"
    /\ state' = [state EXCEPT !.status = "encoding"]
    /\ mainThread' = [mainThread EXCEPT !.pc = "encoding"]
    /\ UNCHANGED <<scoreCall, dedupCall, genCall, gridCall, scenesCall, poolCall>>

\* Line 1716
MainComplete ==
    /\ mainThread.pc = "encoding"
    /\ state' = [state EXCEPT !.status = "complete"]
    /\ mainThread' = [mainThread EXCEPT !.pc = "cleanup"]
    /\ UNCHANGED <<scoreCall, dedupCall, genCall, gridCall, scenesCall, poolCall>>

\* Lines 1718-1752: the temporary files are removed and main() returns.
MainExit ==
    /\ mainThread.pc = "cleanup"
    /\ mainThread' = [mainThread EXCEPT !.pc = "exited"]
    /\ UNCHANGED <<scoreCall, dedupCall, genCall, gridCall, scenesCall, poolCall, state>>

AppNext ==
    \/ ApiSelect \/ ApiAcceleration \/ ApiSceneSelections
    \/ MainStart \/ MainAnalyze \/ MainCandidatesReady
    \/ MainSelect \/ MainPollWeb \/ MainPollText \/ MainSelected
    \/ MainAcceleration \/ MainTemporal \/ MainTemporalScenes \/ MainSceneSelection
    \/ MainEncode \/ MainComplete \/ MainExit

SpecApp == AppInit /\ [][AppNext]_vars

\* C29 as stated: whenever the main flow picks a candidate by an index that
\* came in through POST /api/select/<index>, 1 <= index <= number of
\* candidates, under every interleaving of requests and analysis, also for a
\* request that arrives before the candidates are ready.  Violated: the
\* handler stores any index and the flow reads unique_candidates[index - 1]
\* without a check.
C29_WebIndexInRange ==
    mainThread.web_selection # None =>
        /\ 1 <= mainThread.web_selection[1]
        /\ mainThread.web_selection[1] <= mainThread.unique_candidates

\* The place of a status in the order of the phases.
PhaseOrder ==
    << "initializing", "analyzing", "generating_previews", "candidates_ready",
       "awaiting_acceleration_choice", "analyzing_temporal", "awaiting_scene_selection",
       "encoding", "complete" >>

PhaseRank(status) == CHOOSE k \in 1 .. Len(PhaseOrder) : PhaseOrder[k] = status

\* C30 as stated: under every interleaving of requests and main flow the
\* shared status only moves forward through the phases initializing,
\* analyzing, generating_previews, candidates_ready,
\* awaiting_acceleration_choice, analyzing_temporal, awaiting_scene_selection,
\* encoding, complete; it never returns to an earlier phase, and once it is
\* "complete" it stays "complete".  Violated: a request to /api/select sets
\* the status to awaiting_acceleration_choice whatever it was.
C30_StatusOnlyForward ==
    [][PhaseRank(state'.status) >= PhaseRank(state.status)]_vars

====
